---------------------------- MODULE Spec2Model ----------------------------
(***************************************************************************)
(* Verification model of the E-conomic synchronisation bridge:             *)
(*   - the entity stores (InvoiceModel, AccountingYearModel,               *)
(*     AccountingEntryModel) as atomic store operations on tables,         *)
(*   - the invoice transformer and the duplicate cleanup pass,             *)
(*   - the paginated remote read,                                          *)
(*   - the per-agreement and cross-agreement sync passes.                  *)
(* Absent values (JavaScript null / undefined / SQL NULL) are NULL; the    *)
(* code tests them with `!x` and `x || d`, for which 0 behaves the same.   *)
(***************************************************************************)
EXTENDS Integers, Sequences, FiniteSets, TLC

\* ------------------------------------------------------------------ bounds
\* every write to invoices stamps updated_at with CURRENT_TIMESTAMP; the
\* store specification stops writing invoices when the clock reaches MaxClock
MaxClock == 3
\* longest list of entries handed to one batchUpsert call
MaxBatch == 3
\* rows per transaction of batchUpsert; the code's batchSize of 100, scaled
batchSize == 2

\* most rows the invoices table holds when a cleanup specification starts
MaxRows == 3
\* most cleanup runs of one behaviour
MaxRuns == 2
\* most pages the remote API holds for one listing
MaxPages == 3

\* a JavaScript null / undefined / SQL NULL
NULL == -3
\* invoice.remainder left out of the remote record
UNDEF == -1

\* ------------------------------------------------------- value universes
CustomerNumbers == {1, 2}
AgreementNumbers == {1, 2}
Amounts == {10, 20}
InvoiceTypes == {"draft", "booked", "paid", "unpaid", "overdue", "not-due"}
Statuses == {"pending", "paid", "overdue", "partial"}
Years == {2024}
PeriodNumbers == {1, 2}
EntryNumbers == {1, 2}
Families == {"invoices", "accounting", "lines"}

VARIABLES
  family,            \* the entity family whose store this run exercises
  invoices,          \* table invoices: set of rows
  accounting_years,  \* table accounting_years: set of rows
  accounting_periods,\* table accounting_periods: set of rows
  accounting_entries,\* table accounting_entries: set of rows
  nextId,            \* next surrogate id handed out by the invoices table
  clock,             \* CURRENT_TIMESTAMP of the database, as invoices.updated_at sees it
  today,             \* new Date() of the process, in days
  lastCall,          \* the store call that ran last, and what it reported
  agreements,        \* table agreements, in registry order
  sync_logs,         \* table sync_logs, in insertion order
  server,            \* the pages the remote API serves for one listing
  pager,             \* the getPaginated call in progress: its locals
  invoice_lines,     \* table invoice_lines: set of rows
  accounts,          \* table accounts: set of rows
  accounting_totals, \* table accounting_totals: set of rows
  remote,            \* what the remote API answers, per endpoint
  pc,                \* the sync call in progress: its position and locals
  passes             \* the per-agreement sync passes that have ended

acctVars == <<accounting_years, accounting_periods, accounting_entries>>
invVars == <<invoices, nextId>>
storeVars == <<invoices, nextId, accounting_years, accounting_periods,
               accounting_entries, clock>>
regVars == <<agreements, sync_logs>>
apiVars == <<server, pager>>
dbVars == <<family, invoices, accounting_years, accounting_periods,
            accounting_entries, nextId, clock, today, lastCall, agreements,
            sync_logs>>
syncVars == <<invoice_lines, accounts, accounting_totals, remote, pc, passes>>
vars == <<family, invoices, accounting_years, accounting_periods,
          accounting_entries, nextId, clock, today, lastCall, agreements,
          sync_logs, server, pager, invoice_lines, accounts,
          accounting_totals, remote, pc, passes>>

\* ------------------------------------------------------- invoice status
\* InvoiceModel.shouldUpdateStatus: the statusPriority table, `|| 0`
statusPriority(s) ==
  CASE s = "overdue" -> 3
    [] s = "paid" -> 2
    [] s = "partial" -> 1
    [] s = "pending" -> 0
    [] OTHER -> 0

shouldUpdateStatus(currentStatus, newStatus) ==
  statusPriority(newStatus) >= statusPriority(currentStatus)

\* ---------------------------------------------------- transformInvoiceData
\* a record of a remote invoice listing
RemoteInvoices ==
  [draftInvoiceNumber : {NULL, 1},
   bookedInvoiceNumber : {NULL, 1},
   customerNumber : {NULL} \cup CustomerNumbers,
   remainder : {UNDEF, 0, 5},
   dueDate : {2},
   netAmount : {10}]

\* InvoiceService.transformInvoiceData(invoice, type, agreementNumber);
\* `now` is the `new Date()` the function reads
transformInvoiceData(invoice, type, agreementNumber, now) ==
  LET base == [customer_number |-> invoice.customerNumber,
               agreement_number |-> agreementNumber,
               net_amount |-> invoice.netAmount]
  IN IF type = "draft"
     THEN base @@ [invoice_number |-> NULL,
                   draft_invoice_number |-> invoice.draftInvoiceNumber,
                   payment_status |-> "draft"]
     ELSE base @@ [invoice_number |-> invoice.bookedInvoiceNumber,
                   draft_invoice_number |-> NULL,
                   payment_status |->
                     IF type = "paid" \/ invoice.remainder = 0
                     THEN "paid"
                     ELSE IF type = "overdue"
                             \/ (invoice.remainder > 0 /\ invoice.dueDate < now)
                          THEN "overdue"
                          ELSE "pending"]

\* ------------------------------------------------------------ InvoiceModel
\* a find whose WHERE clause compares the draft number only
findByDraftNumberOnly(table, invoiceNumber, customerNumber, agreementNumber) ==
  IF invoiceNumber = NULL \/ customerNumber = NULL \/ agreementNumber = NULL
  THEN {}
  ELSE {r \in table :
          /\ r.draft_invoice_number = invoiceNumber
          /\ r.customer_number = customerNumber
          /\ r.agreement_number = agreementNumber}

\* InvoiceModel.findByInvoiceAndAgreementNumber: the rows the SELECT returns
findByInvoiceAndAgreementNumber(table, invoiceNumber, customerNumber, agreementNumber) ==
  IF invoiceNumber = NULL \/ customerNumber = NULL \/ agreementNumber = NULL
  THEN {}
  ELSE {r \in table :
          /\ (r.invoice_number = invoiceNumber \/ r.draft_invoice_number = invoiceNumber)
          /\ r.customer_number = customerNumber
          /\ r.agreement_number = agreementNumber}

\* smartUpsert, lines 10-16: the row after the agreement number is set and
\* the draft number has replaced a missing invoice number
smartUpsertKeyed(invoiceData, agreementNumber) ==
  LET d == [invoiceData EXCEPT !.agreement_number = agreementNumber]
  IN IF d.payment_status = "draft" \/ d.invoice_number = NULL
     THEN [d EXCEPT !.invoice_number = d.draft_invoice_number]
     ELSE d

\* smartUpsert, lines 18-32: the required-field checks throw
smartUpsertThrows(d, agreementNumber) ==
  d.invoice_number = NULL \/ d.customer_number = NULL \/ agreementNumber = NULL

\* `invoiceData.payment_status || 'pending'`; "" is an absent status
orPending(status) == IF status = "" THEN "pending" ELSE status

\* the payment_status the UPDATE statement of smartUpsert writes (line 67)
smartUpsertStatus(existingStatus, d) == orPending(d.payment_status)

\* smartUpsert, lines 42-75: UPDATE invoices SET ... WHERE invoice_number = ?
\* AND customer_number = ? AND agreement_number = ?
smartUpsertUpdate(table, d, now) ==
  {IF /\ r.invoice_number = d.invoice_number
      /\ r.customer_number = d.customer_number
      /\ r.agreement_number = d.agreement_number
   THEN [r EXCEPT !.draft_invoice_number = d.draft_invoice_number,
                  !.net_amount = d.net_amount,
                  !.payment_status = smartUpsertStatus(r.payment_status, d),
                  !.updated_at = now]
   ELSE r : r \in table}

\* smartUpsert, lines 80-105: INSERT INTO invoices
smartUpsertInsert(table, d, id, now) ==
  table \cup {[id |-> id,
               invoice_number |-> d.invoice_number,
               draft_invoice_number |-> d.draft_invoice_number,
               customer_number |-> d.customer_number,
               agreement_number |-> d.agreement_number,
               net_amount |-> d.net_amount,
               payment_status |-> orPending(d.payment_status),
               updated_at |-> now]}

\* ------------------------------------------------------ AccountingYearModel
\* AccountingYearModel.findByYearAndAgreement: the rows the SELECT returns
\* (a comparison with NULL matches no row)
findByYearAndAgreement(table, year, agreementNumber) ==
  {r \in table : /\ year # NULL /\ agreementNumber # NULL
                 /\ r.year = year /\ r.agreement_number = agreementNumber}

\* the year rows the accounting sync can hand to upsert
YearRows == [year : {NULL} \cup Years,
             agreement_number : {NULL} \cup AgreementNumbers,
             start_date : {1, 2}]

\* AccountingYearModel.upsert(yearData) on the table; year and
\* agreement_number are the NOT NULL primary key of accounting_years
yearUpsert(table, yearData) ==
  LET existing == findByYearAndAgreement(table, yearData.year,
                                         yearData.agreement_number)
  IN IF existing # {}
     THEN [threw |-> FALSE, inserted |-> 0, updated |-> 1, statements |-> 2,
           table |-> {IF r \in existing
                      THEN [r EXCEPT !.start_date = yearData.start_date]
                      ELSE r : r \in table}]
     ELSE IF yearData.year = NULL \/ yearData.agreement_number = NULL
          THEN [threw |-> TRUE, inserted |-> 0, updated |-> 0, statements |-> 2,
                table |-> table]
          ELSE [threw |-> FALSE, inserted |-> 1, updated |-> 0, statements |-> 2,
                table |-> table \cup {yearData}]

\* AccountingYearModel.upsert(yearData)
\* a missing key part reaches db.query as null, which pool.execute binds as
\* SQL NULL, or as undefined, which pool.execute refuses before the SELECT
\* is sent
YearUpsert(yearData) ==
  \E absent \in {"null", "undefined"} :
    LET res == yearUpsert(accounting_years, yearData)
        missing == yearData.year = NULL \/ yearData.agreement_number = NULL
        repeat == lastCall.fn = "yearUpsert" /\ lastCall.row = yearData
                  /\ ~lastCall.threw
    IN /\ family = "accounting"
       /\ absent = "undefined" => missing
       /\ accounting_years' = res.table
       /\ UNCHANGED <<invVars, clock, accounting_periods, accounting_entries>>
       /\ lastCall' = [fn |-> "yearUpsert", row |-> yearData, threw |-> res.threw,
                       inserted |-> res.inserted, updated |-> res.updated,
                       repeat |-> repeat, before |-> {},
                       statements |-> IF absent = "undefined" THEN 0
                                      ELSE res.statements]
       /\ UNCHANGED <<family, today, regVars, apiVars, syncVars>>

\* ---------------------------------------------------- AccountingPeriodModel
PeriodRows == [period_number : {1}, year : Years,
               agreement_number : AgreementNumbers, from_date : {1}]

\* AccountingPeriodModel.upsert(periodData) on the table: find by
\* (period_number, year, agreement_number), UPDATE the match or INSERT; the
\* INSERT needs the year row
periodUpsert(table, years, periodData) ==
  LET existing == {r \in table :
                     /\ r.period_number = periodData.period_number
                     /\ r.year = periodData.year
                     /\ r.agreement_number = periodData.agreement_number}
  IN IF existing # {}
     THEN [threw |-> FALSE, inserted |-> 0, updated |-> 1,
           table |-> (table \ existing) \cup {periodData}]
     ELSE IF findByYearAndAgreement(years, periodData.year,
                                    periodData.agreement_number) = {}
          THEN [threw |-> TRUE, inserted |-> 0, updated |-> 0, table |-> table]
          ELSE [threw |-> FALSE, inserted |-> 1, updated |-> 0,
                table |-> table \cup {periodData}]

\* AccountingPeriodModel.upsert(periodData)
PeriodUpsert(periodData) ==
  LET res == periodUpsert(accounting_periods, accounting_years, periodData)
  IN /\ family = "accounting"
     /\ accounting_periods' = res.table
     /\ UNCHANGED <<invVars, clock, accounting_years, accounting_entries>>
     /\ lastCall' = [fn |-> "periodUpsert", row |-> periodData, threw |-> res.threw,
                     inserted |-> res.inserted, updated |-> res.updated,
                     repeat |-> FALSE, before |-> {}]
     /\ UNCHANGED <<family, today, regVars, apiVars, syncVars>>

\* ----------------------------------------------------- AccountingEntryModel
\* AccountingEntryModel.findByEntryNumberYearAndAgreement
findByEntryNumberYearAndAgreement(table, entryNumber, year, agreementNumber) ==
  {r \in table : /\ r.entry_number = entryNumber /\ r.year = year
                 /\ r.agreement_number = agreementNumber}

\* the statement of batchUpsert for one entry inside the chunk's transaction.
\* `committed` is what the pool connection of the find sees, `view` what the
\* transaction's own connection sees. The result is the new view, or "error"
\* when the statement breaks the primary key or the foreign key to the period.
entryStatement(committed, view, periods, entry) ==
  IF ~\E p \in periods : /\ p.period_number = entry.period_number
                          /\ p.year = entry.year
                          /\ p.agreement_number = entry.agreement_number
  THEN [ok |-> FALSE, updated |-> 0, inserted |-> 0, view |-> view]
  ELSE IF findByEntryNumberYearAndAgreement(committed, entry.entry_number,
                                            entry.year, entry.agreement_number) # {}
       THEN [ok |-> TRUE, updated |-> 1, inserted |-> 0,
             view |-> {IF /\ r.entry_number = entry.entry_number
                          /\ r.year = entry.year
                          /\ r.agreement_number = entry.agreement_number
                       THEN entry ELSE r : r \in view}]
       ELSE IF findByEntryNumberYearAndAgreement(view, entry.entry_number,
                                                 entry.year, entry.agreement_number) # {}
            THEN [ok |-> FALSE, updated |-> 0, inserted |-> 0, view |-> view]
            ELSE [ok |-> TRUE, updated |-> 0, inserted |-> 1,
                  view |-> view \cup {entry}]

\* db.transaction(callback) over one chunk: the statements run in order on
\* one connection; the first failing statement rolls the chunk back
RECURSIVE entryChunk(_, _, _, _, _)
entryChunk(committed, view, periods, batch, counts) ==
  IF batch = <<>>
  THEN [ok |-> TRUE, table |-> view, inserted |-> counts.inserted,
        updated |-> counts.updated]
  ELSE LET st == entryStatement(committed, view, periods, Head(batch))
       IN IF ~st.ok
          THEN [ok |-> FALSE, table |-> committed, inserted |-> counts.inserted,
                updated |-> counts.updated]
          ELSE entryChunk(committed, st.view, periods, Tail(batch),
                          [inserted |-> counts.inserted + st.inserted,
                           updated |-> counts.updated + st.updated])

\* entries.slice(i, i + batchSize)
slice(s, from, to) ==
  SubSeq(s, from + 1, IF to > Len(s) THEN Len(s) ELSE to)

\* a batchUpsert that runs the whole list in one transaction
batchUpsertOneTransaction(table, periods, entries, i, counts) ==
  LET res == entryChunk(table, table, periods, entries, counts)
  IN [ok |-> res.ok, table |-> res.table,
      inserted |-> IF res.ok THEN res.inserted ELSE 0,
      updated |-> IF res.ok THEN res.updated ELSE 0]

\* AccountingEntryModel.batchUpsert(entries): the chunks from index i on
RECURSIVE batchUpsert(_, _, _, _, _)
batchUpsert(table, periods, entries, i, counts) ==
  IF i >= Len(entries)
  THEN [ok |-> TRUE, table |-> table, inserted |-> counts.inserted,
        updated |-> counts.updated]
  ELSE LET res == entryChunk(table, table, periods,
                             slice(entries, i, i + batchSize), counts)
       IN IF ~res.ok
          THEN [ok |-> FALSE, table |-> res.table, inserted |-> 0, updated |-> 0]
          ELSE batchUpsert(res.table, periods, entries, i + batchSize,
                           [inserted |-> res.inserted, updated |-> res.updated])

EntryRows == [entry_number : EntryNumbers, year : Years,
              period_number : {1}, agreement_number : {1},
              amount : Amounts]

\* lists whose last chunk holds an entry of a period that is not stored
LateFailures ==
  {<<[entry_number |-> 1, year |-> 2024, period_number |-> 1,
      agreement_number |-> 1, amount |-> a],
     [entry_number |-> 2, year |-> 2024, period_number |-> 1,
      agreement_number |-> 1, amount |-> 10],
     [entry_number |-> 3, year |-> 2024, period_number |-> 2,
      agreement_number |-> 1, amount |-> 10]>> : a \in Amounts}

EntryBatches == UNION {[1..n -> EntryRows] : n \in 0..MaxBatch} \cup LateFailures

EntryBatchUpsert(entries) ==
  LET res == batchUpsert(accounting_entries, accounting_periods, entries, 0,
                         [inserted |-> 0, updated |-> 0])
      repeat == lastCall.fn = "batchUpsert" /\ lastCall.row = entries /\ ~lastCall.threw
  IN /\ family = "accounting"
     /\ accounting_entries' = res.table
     /\ lastCall' = [fn |-> "batchUpsert", row |-> entries, threw |-> ~res.ok,
                     inserted |-> res.inserted, updated |-> res.updated,
                     repeat |-> repeat, before |-> accounting_entries,
                     periods |-> accounting_periods]
     /\ UNCHANGED <<invVars, clock, accounting_years, accounting_periods, family, today,
                  regVars, apiVars, syncVars>>

NoCall == [fn |-> "none"]

\* a row of the agreements table; "" is a missing agreement_grant_token
Agreement(id, agreementNumber, token, active) ==
  [id |-> id, agreement_number |-> agreementNumber,
   agreement_grant_token |-> token, active |-> active]

\* a remote that lists nothing and answers every request
NoRemote ==
  [failing |-> {}, drafts |-> <<>>, booked |-> <<>>, overdue |-> FALSE,
   lines |-> <<>>, accountList |-> <<>>, years |-> <<>>, periods |-> <<>>,
   entries |-> 0, totals |-> <<>>, logsDown |-> FALSE]

\* no agreement is being synced
NoAgreement == Agreement(0, NULL, "", FALSE)

\* the frame of the sync call that is running; "idle" when none is
NoSync ==
  [at |-> "idle", mode |-> "none", queue |-> <<>>, active |-> 0,
   results |-> <<>>, totalCount |-> 0, threw |-> FALSE, status |-> "",
   outcomes |-> <<>>, agreement |-> NoAgreement,
   years |-> <<>>, yearCount |-> 0, year |-> NULL,
   periods |-> <<>>, periodCount |-> 0, period |-> NULL,
   failedAt |-> "", failYear |-> NULL, failPeriod |-> NULL,
   selfCalls |-> 0, requests |-> {}, types |-> <<>>, typeResults |-> <<>>]

\* the entity rows of an empty store
emptyRows ==
  [invoices |-> {}, invoice_lines |-> {}, lineCount |-> 0, accounts |-> {},
   accounting_years |-> {}, accounting_periods |-> {},
   accounting_entries |-> {}, accounting_totals |-> {}]

\* what a finished sync call leaves behind: its result and the store
NoPass ==
  [mode |-> "none", id |-> 0, threw |-> FALSE, status |-> "", active |-> 0,
   results |-> <<>>, totalCount |-> 0, outcomes |-> <<>>,
   rows |-> emptyRows, today |-> 0, requests |-> {}, logs |-> 0,
   types |-> <<>>]

\* no sync has been called
NoPasses == [calls |-> 0, last |-> NoPass, prev |-> NoPass]

\* InvoiceModel.smartUpsert(invoiceData, agreementNumber) on the table, with
\* `id` the next surrogate id and `now` the CURRENT_TIMESTAMP of the write
smartUpsert(table, id, now, invoiceData, agreementNumber) ==
  LET d == smartUpsertKeyed(invoiceData, agreementNumber)
      existing == findByInvoiceAndAgreementNumber(
                    table, d.invoice_number, d.customer_number, agreementNumber)
  IN IF smartUpsertThrows(d, agreementNumber)
     THEN [threw |-> TRUE, table |-> table, inserted |-> 0, updated |-> 0, row |-> d,
           statements |-> 0]
     ELSE IF existing # {}
          THEN [threw |-> FALSE, table |-> smartUpsertUpdate(table, d, now),
                inserted |-> 0, updated |-> 1, row |-> d, statements |-> 2]
          ELSE [threw |-> FALSE, table |-> smartUpsertInsert(table, d, id, now),
                inserted |-> 1, updated |-> 0, row |-> d, statements |-> 2]

\* the rows transformInvoiceData can hand to smartUpsert on day `now`
TransformedInvoices(now) ==
  {<<transformInvoiceData(invoice, type, agreementNumber, now), agreementNumber>> :
     invoice \in RemoteInvoices, type \in InvoiceTypes,
     agreementNumber \in {NULL, 1}}

\* InvoiceModel.smartUpsert(invoiceData, agreementNumber)
SmartUpsert(invoiceData, agreementNumber) ==
  LET res == smartUpsert(invoices, nextId, clock + 1, invoiceData, agreementNumber)
      d == res.row
      repeat == lastCall.fn = "smartUpsert" /\ lastCall.row = d /\ ~lastCall.threw
  IN /\ family = "invoices"
     /\ clock < MaxClock
     /\ invoices' = res.table
     /\ nextId' = nextId + res.inserted
     /\ clock' = IF res.threw THEN clock ELSE clock + 1
     /\ lastCall' = [fn |-> "smartUpsert", row |-> d, threw |-> res.threw,
                     inserted |-> res.inserted, updated |-> res.updated,
                     statements |-> res.statements,
                     repeat |-> ~res.threw /\ repeat,
                     before |-> IF res.threw THEN {}
                                ELSE {r.payment_status : r \in
                                        {x \in invoices :
                                           /\ x.invoice_number = d.invoice_number
                                           /\ x.customer_number = d.customer_number
                                           /\ x.agreement_number = d.agreement_number}}]
     /\ UNCHANGED acctVars
     /\ UNCHANGED <<family, today, regVars, apiVars, syncVars>>

\* the invoice sync hands smartUpsert the rows transformInvoiceData builds
SmartUpsertCall ==
  \E call \in TransformedInvoices(today) : SmartUpsert(call[1], call[2])

\* ------------------------------------------------------------- sync logs
\* Model.recordSyncLog(entity, operation, status, recordCount): the INSERT
\* INTO sync_logs; when the INSERT fails the error is swallowed
recordSyncLog(logs, entity, operation, status, recordCount, insertOk) ==
  IF insertOk
  THEN Append(logs, [entity |-> entity, operation |-> operation,
                     status |-> status, record_count |-> recordCount])
  ELSE logs

\* the database takes the INSERT INTO sync_logs
logsUp == ~remote.logsDown

\* a recordSyncLog whose catch block rethrows
logErrorRethrown(insertOk) == ~insertOk

\* the catch block of recordSyncLog: the error of the INSERT is written to
\* the logger and null is returned; no error leaves the function
logErrorEscapes(insertOk) == FALSE

\* ------------------------------------------------- cleanupDuplicateInvoices
\* AgreementModel.getAll(true): the active agreements, in registry order
getActiveAgreements(registry) == SelectSeq(registry, LAMBDA a : a.active)

\* invoices[0] of `ORDER BY updated_at DESC`; among rows of one updated_at
\* the database may return any first, `tie` ranks them
mostRecent(rows, tie) ==
  CHOOSE r \in rows :
    \A q \in rows \ {r} :
      \/ q.updated_at < r.updated_at
      \/ (q.updated_at = r.updated_at /\ tie[q.id] < tie[r.id])

\* a cleanup that deletes invoices[1] only: invoices.slice(1, 2)
secondMostRecentOnly(rows, tie) ==
  IF Cardinality(rows) <= 1 THEN {}
  ELSE {mostRecent(rows \ {mostRecent(rows, tie)}, tie)}

\* invoices.slice(1): the rows the cleanup deletes from one group
duplicatesOf(rows, tie) ==
  IF Cardinality(rows) <= 1 THEN {} ELSE rows \ {mostRecent(rows, tie)}

\* InvoiceService.cleanupDuplicateInvoices, the body of the agreement loop:
\* SELECT DISTINCT invoice_number WHERE agreement_number = ? AND
\* invoice_number IS NOT NULL, then per number the rows of that number and
\* agreement, all but the first deleted by id
cleanupAgreement(table, agreementNumber, tie) ==
  LET invoiceNumbers ==
        {r.invoice_number :
           r \in {x \in table : /\ agreementNumber # NULL
                                /\ x.agreement_number = agreementNumber
                                /\ x.invoice_number # NULL}}
      rowsOf(n) == {r \in table : /\ r.invoice_number = n
                                  /\ r.agreement_number = agreementNumber}
  IN table \ UNION {duplicatesOf(rowsOf(n), tie) : n \in invoiceNumbers}

\* the agreement loop of cleanupDuplicateInvoices
RECURSIVE cleanupAgreements(_, _, _)
cleanupAgreements(table, agrs, tie) ==
  IF agrs = <<>> THEN table
  ELSE cleanupAgreements(cleanupAgreement(table, Head(agrs).agreement_number, tie),
                         Tail(agrs), tie)

\* InvoiceService.cleanupDuplicateInvoices of the first revision of the
\* service: InvoiceModel.findDistinctInvoiceNumbers, then per number the rows
\* of that number in any agreement, all but the first deleted by id
cleanupAllNumbers(table, tie) ==
  LET invoiceNumbers == {r.invoice_number : r \in {x \in table : x.invoice_number # NULL}}
      rowsOf(n) == {r \in table : r.invoice_number = n}
  IN table \ UNION {duplicatesOf(rowsOf(n), tie) : n \in invoiceNumbers}

\* the orders in which the database may return rows of equal updated_at
TieBreaks(table) ==
  LET ids == {r.id : r \in table}
  IN {t \in [ids -> 1..Cardinality(ids)] : \A i, j \in ids : t[i] = t[j] => i = j}

cleanupCall(revision, cleaned) ==
  [fn |-> "cleanup", row |-> revision, threw |-> FALSE, inserted |-> 0,
   updated |-> 0, count |-> Cardinality(invoices) - Cardinality(cleaned),
   repeat |-> lastCall.fn = "cleanup" /\ lastCall.row = revision,
   prevCount |-> IF lastCall.fn = "cleanup" THEN lastCall.count ELSE 0,
   before |-> invoices]

\* InvoiceService.cleanupDuplicateInvoices()
CleanupDuplicateInvoices ==
  \E tie \in TieBreaks(invoices), logOk \in BOOLEAN :
    LET cleaned == cleanupAgreements(invoices, getActiveAgreements(agreements), tie)
        call == cleanupCall("agreements", cleaned)
    IN /\ family = "invoices"
       /\ Len(sync_logs) < MaxRuns
       /\ invoices' = cleaned
       /\ sync_logs' = recordSyncLog(sync_logs, <<"invoices_cleanup">>, "cleanup",
                                     "success", call.count, logOk)
       /\ lastCall' = call
       /\ UNCHANGED <<family, nextId, clock, today, acctVars, agreements, apiVars, syncVars>>

\* InvoiceService.cleanupDuplicateInvoices() of the first revision
CleanupDuplicateInvoicesAllNumbers ==
  \E tie \in TieBreaks(invoices), logOk \in BOOLEAN :
    LET cleaned == cleanupAllNumbers(invoices, tie)
        call == cleanupCall("numbers", cleaned)
    IN /\ family = "invoices"
       /\ Len(sync_logs) < MaxRuns
       /\ invoices' = cleaned
       /\ sync_logs' = recordSyncLog(sync_logs, <<"invoices_cleanup">>, "cleanup",
                                     "success", call.count, logOk)
       /\ lastCall' = call
       /\ UNCHANGED <<family, nextId, clock, today, acctVars, agreements, apiVars, syncVars>>

\* ------------------------------------------------- ApiClient.getPaginated
\* the URL of a page: `absolute` when it starts with config.api.baseUrl;
\* page 0 is no URL (null)
Url(page, absolute) == [page |-> page, absolute |-> absolute]
NoUrl == Url(0, FALSE)

\* a response body: data.collection may be missing, pagination.nextPage may
\* be missing, a path below the base URL or a full URL
Pages ==
  [hasCollection : BOOLEAN, collection : {<<>>, <<1>>, <<2>>},
   nextPage : {"none", "path", "url"}]

\* the listings a server can hold, and the request it fails (0: none)
Servers ==
  [pages : UNION {[1..n -> {pg \in Pages : pg.hasCollection \/ pg.collection = <<>>}]
                    : n \in 1..MaxPages},
   failAt : 0..MaxPages]

NoServer == [pages |-> <<>>, failAt |-> 0]
NoPager == [status |-> "idle", currentPage |-> NoUrl, results |-> <<>>,
            requests |-> 0]

\* `${endpoint}?skippages=0&pagesize=100`
firstPage == Url(1, FALSE)

\* currentPage.startsWith(baseUrl) ? currentPage.substring(baseUrl.length)
\*                                 : currentPage
pathOf(url) == Url(url.page, FALSE)

\* a loop that also stops at a page whose collection is empty
nextPageUnlessEmpty(pages, i) ==
  CASE pages[i].nextPage = "none" \/ pages[i].collection = <<>> -> NoUrl
    [] pages[i].nextPage = "path" -> Url(i + 1, FALSE)
    [] pages[i].nextPage = "url" -> Url(i + 1, TRUE)

\* response.data.pagination?.nextPage || null, of the page at index i
nextPageOf(pages, i) ==
  CASE pages[i].nextPage = "none" -> NoUrl
    [] pages[i].nextPage = "path" -> Url(i + 1, FALSE)
    [] pages[i].nextPage = "url" -> Url(i + 1, TRUE)

\* getPaginated(endpoint): the locals before the loop
GetPaginatedCall ==
  /\ pager.status = "idle"
  /\ server # NoServer
  /\ pager' = [status |-> "running", currentPage |-> firstPage,
               results |-> <<>>, requests |-> 0]
  /\ UNCHANGED <<dbVars, server, syncVars>>

\* getPaginated: the loop test and one iteration of `while (currentPage)`
GetPaginatedStep ==
  /\ pager.status = "running"
  /\ IF pager.currentPage = NoUrl
     THEN pager' = [pager EXCEPT !.status = "returned"]
     ELSE LET i == pathOf(pager.currentPage).page
          IN IF i > Len(server.pages) \/ server.failAt = pager.requests + 1
             THEN pager' = [pager EXCEPT !.status = "threw",
                                         !.requests = @ + 1]
             ELSE pager' =
                    [pager EXCEPT
                       !.requests = @ + 1,
                       !.results = IF server.pages[i].hasCollection
                                   THEN @ \o server.pages[i].collection
                                   ELSE @,
                       !.currentPage = nextPageOf(server.pages, i)]
  /\ UNCHANGED <<dbVars, server, syncVars>>

InitPage ==
  /\ family = "invoices"
  /\ invoices = {}
  /\ accounting_years = {}
  /\ accounting_periods = {}
  /\ accounting_entries = {}
  /\ nextId = 1
  /\ clock = 0
  /\ today = 1
  /\ lastCall = NoCall
  /\ agreements = <<>>
  /\ sync_logs = <<>>
  /\ server \in Servers
  /\ pager = NoPager
  /\ invoice_lines = {}
  /\ accounts = {}
  /\ accounting_totals = {}
  /\ remote = NoRemote
  /\ pc = NoSync
  /\ passes = NoPasses

NextPage ==
  \/ GetPaginatedCall
  \/ GetPaginatedStep

\* the awaited loop issues its next request when the response arrives
SpecPage == InitPage /\ [][NextPage]_vars /\ WF_vars(GetPaginatedStep)

\* ------------------------------------------------------------ the remote
\* agreement grant tokens; config.api.agreementGrantToken is the default
Tokens == {"t1", "t2", "t3"}
defaultToken == "t1"

\* new ApiClient(token): agreementGrantToken || config.api.agreementGrantToken
forAgreement(token) == IF token = "" THEN defaultToken ELSE token

\* the agreementNumber GET /self answers for a token
selfNumber(token) ==
  CASE token = "t1" -> 1
    [] token = "t2" -> 2
    [] OTHER -> 3

\* a request the remote answers with an error: <<token, endpoint, year, period>>
fails(token, endpoint, year, period) ==
  <<token, endpoint, year, period>> \in remote.failing

\* client.getAgreementInfo()
getAgreementInfo(token) ==
  [ok |-> ~fails(token, "self", NULL, NULL), agreementNumber |-> selfNumber(token)]

\* getClientForAgreement(agreement.agreement_grant_token) followed by
\* client.getAgreementInfo(): GET /self goes out under the token the client
\* was built with; the later requests of the function use the same client
selfRequest(frame, agreement) ==
  [frame EXCEPT !.selfCalls = @ + 1,
                !.requests = @ \cup {<<agreement.agreement_grant_token,
                                       forAgreement(agreement.agreement_grant_token)>>}]

\* `agreement.agreement_number || 'unknown'` of the catch blocks
UNKNOWN == -2
orUnknown(agreementNumber) ==
  IF agreementNumber = NULL THEN UNKNOWN ELSE agreementNumber

\* the entity rows of the store: the invoices without the timestamp the
\* database stamps, the lines without the surrogate id of each INSERT
withoutStamp(r) == [f \in DOMAIN r \ {"updated_at"} |-> r[f]]
withoutId(r) == [f \in DOMAIN r \ {"id"} |-> r[f]]

entityRows ==
  [invoices |-> {withoutStamp(r) : r \in invoices},
   invoice_lines |-> {withoutId(r) : r \in invoice_lines},
   lineCount |-> Cardinality(invoice_lines),
   accounts |-> accounts,
   accounting_years |-> accounting_years,
   accounting_periods |-> accounting_periods,
   accounting_entries |-> accounting_entries,
   accounting_totals |-> accounting_totals]

\* ----------------------------------------------------- AccountingTotalModel
\* `periodValue` of AccountingTotalModel.batchUpsert
periodValue(periodNumber) == IF periodNumber = NULL THEN 0 ELSE periodNumber

\* AccountingTotalModel.findByKeys
findByKeys(table, accountNumber, year, periodNumber, agreementNumber) ==
  {r \in table : /\ r.account_number = accountNumber /\ r.year = year
                 /\ r.period_number = periodValue(periodNumber)
                 /\ r.agreement_number = agreementNumber}

\* the statement of AccountingTotalModel.batchUpsert for one total inside the
\* chunk's transaction, on the total with its period value bound;
\* accounting_totals references accounting_years
totalStatement(committed, view, years, given) ==
  LET total == [given EXCEPT !.period_number = periodValue(@)] IN
  IF findByKeys(committed, total.account_number, total.year, total.period_number,
                total.agreement_number) # {}
  THEN [ok |-> TRUE, updated |-> 1, inserted |-> 0,
        view |-> {IF r \in findByKeys(view, total.account_number, total.year,
                                      total.period_number, total.agreement_number)
                  THEN total ELSE r : r \in view}]
  ELSE IF \/ findByKeys(view, total.account_number, total.year,
                        total.period_number, total.agreement_number) # {}
          \/ findByYearAndAgreement(years, total.year, total.agreement_number) = {}
       THEN [ok |-> FALSE, updated |-> 0, inserted |-> 0, view |-> view]
       ELSE [ok |-> TRUE, updated |-> 0, inserted |-> 1, view |-> view \cup {total}]

\* db.transaction(callback) over one chunk of totals
RECURSIVE totalChunk(_, _, _, _, _)
totalChunk(committed, view, years, batch, counts) ==
  IF batch = <<>>
  THEN [ok |-> TRUE, table |-> view, inserted |-> counts.inserted,
        updated |-> counts.updated]
  ELSE LET st == totalStatement(committed, view, years, Head(batch))
       IN IF ~st.ok
          THEN [ok |-> FALSE, table |-> committed, inserted |-> counts.inserted,
                updated |-> counts.updated]
          ELSE totalChunk(committed, st.view, years, Tail(batch),
                          [inserted |-> counts.inserted + st.inserted,
                           updated |-> counts.updated + st.updated])

\* AccountingTotalModel.batchUpsert(totals): the chunks from index i on
RECURSIVE totalBatchUpsert(_, _, _, _, _)
totalBatchUpsert(table, years, totals, i, counts) ==
  IF i >= Len(totals)
  THEN [ok |-> TRUE, table |-> table, inserted |-> counts.inserted,
        updated |-> counts.updated]
  ELSE LET res == totalChunk(table, table, years,
                             slice(totals, i, i + batchSize), counts)
       IN IF ~res.ok
          THEN [ok |-> FALSE, table |-> res.table, inserted |-> 0, updated |-> 0]
          ELSE totalBatchUpsert(res.table, years, totals, i + batchSize,
                                [inserted |-> res.inserted, updated |-> res.updated])

\* ------------------------------------------------- accounting transformers
\* AccountingYearService.transformAccountingYearData
transformAccountingYearData(year, agreementNumber) ==
  [year |-> year.year, agreement_number |-> agreementNumber,
   start_date |-> year.fromDate]

\* a transform that writes the number of the first period for every period
transformAccountingPeriodDataSamePeriod(period, year, agreementNumber) ==
  [period_number |-> 1, year |-> year,
   agreement_number |-> agreementNumber, from_date |-> period.fromDate]

\* AccountingYearService.transformAccountingPeriodData
transformAccountingPeriodData(period, year, agreementNumber) ==
  [period_number |-> period.periodNumber, year |-> year,
   agreement_number |-> agreementNumber, from_date |-> period.fromDate]

\* AccountingYearService.transformAccountingEntryData
transformAccountingEntryData(entry, year, periodNumber, agreementNumber) ==
  [entry_number |-> entry.entryNumber, year |-> year,
   period_number |-> periodNumber, agreement_number |-> agreementNumber,
   amount |-> entry.amount]

\* a transform that files the totals of the year under the first period
transformAccountingTotalDataFirstPeriod(total, year, periodNumber, agreementNumber) ==
  [account_number |-> total.accountNumber, year |-> year,
   period_number |-> IF periodNumber \in {NULL, UNDEF, 0} THEN 1 ELSE periodNumber,
   agreement_number |-> agreementNumber,
   total_in_base_currency |-> total.totalInBaseCurrency]

\* AccountingYearService.transformAccountingTotalData; `periodNumber || 0`
\* turns every falsy period (null, undefined, 0) into the sentinel 0
transformAccountingTotalData(total, year, periodNumber, agreementNumber) ==
  [account_number |-> total.accountNumber, year |-> year,
   period_number |-> IF periodNumber \in {NULL, UNDEF, 0} THEN 0 ELSE periodNumber,
   agreement_number |-> agreementNumber,
   total_in_base_currency |-> total.totalInBaseCurrency]

\* syncAccountingEntriesForPeriod, the batch loop from index i on
RECURSIVE syncEntryBatches(_, _, _, _, _)
syncEntryBatches(table, periods, entries, i, recordCount) ==
  IF i >= Len(entries)
  THEN [ok |-> TRUE, table |-> table, recordCount |-> recordCount]
  ELSE LET res == batchUpsert(table, periods, slice(entries, i, i + batchSize), 0,
                              [inserted |-> 0, updated |-> 0])
       IN IF ~res.ok
          THEN [ok |-> FALSE, table |-> res.table, recordCount |-> recordCount]
          ELSE syncEntryBatches(res.table, periods, entries, i + batchSize,
                                recordCount + res.inserted + res.updated)

\* ------------------------------------------------------ the invoice pass
\* the listings the remote answers for an invoice type
listingOf(type) ==
  LET unpaid == SelectSeq(remote.booked, LAMBDA b : b.remainder > 0)
  IN CASE type = "draft" -> remote.drafts
       [] type = "booked" -> remote.booked
       [] type = "paid" -> SelectSeq(remote.booked, LAMBDA b : b.remainder = 0)
       [] type = "unpaid" -> unpaid
       [] type = "overdue" -> IF remote.overdue THEN unpaid ELSE <<>>
       [] OTHER -> IF remote.overdue THEN <<>> ELSE unpaid

\* the default `types` of syncAgreementInvoices, in loop order
defaultTypes == <<"draft", "booked", "paid", "unpaid", "overdue", "not-due">>

\* the sync_logs entity `invoices_${type}`
invoiceEntity(type) ==
  CASE type = "draft" -> <<"invoices_draft">>
    [] type = "booked" -> <<"invoices_booked">>
    [] type = "paid" -> <<"invoices_paid">>
    [] type = "unpaid" -> <<"invoices_unpaid">>
    [] type = "overdue" -> <<"invoices_overdue">>
    [] OTHER -> <<"invoices_not-due">>

\* InvoiceService.getDetailedInvoice: the invoice with its lines, or NULL
\* when the request fails
getDetailedInvoice(token, invoice) ==
  IF fails(token, "detail", NULL, NULL)
  THEN [found |-> FALSE, customerNumber |-> NULL, lines |-> <<>>]
  ELSE [found |-> TRUE, customerNumber |-> invoice.customerNumber,
        lines |-> remote.lines]

\* InvoiceService.transformInvoiceLines
transformInvoiceLines(detailed, invoiceNumber, agreementNumber) ==
  [i \in 1..Len(detailed.lines) |->
     [invoice_id |-> invoiceNumber, agreement_number |-> agreementNumber,
      customer_number |-> detailed.customerNumber,
      line_number |-> detailed.lines[i]]]

\* the greatest surrogate id of a table
topId(table) ==
  IF table = {} THEN 0
  ELSE CHOOSE n \in {r.id : r \in table} : \A r \in table : r.id <= n

\* the line rows saveInvoiceLines inserts, with fresh surrogate ids
insertedLines(table, invoiceNumber, agreementNumber, customerNumber, lines) ==
  {[id |-> topId(table) + i, invoice_id |-> invoiceNumber,
    agreement_number |-> agreementNumber, customer_number |-> customerNumber,
    line_number |-> lines[i].line_number] : i \in 1..Len(lines)}

\* a save that inserts the lines without deleting the stored ones
saveInvoiceLinesNoDelete(table, invoiceNumber, agreementNumber, customerNumber, lines) ==
  table \cup insertedLines(table, invoiceNumber, agreementNumber, customerNumber, lines)

\* InvoiceModel.saveInvoiceLines: nothing for no lines; else DELETE the
\* stored lines of the invoice and INSERT the new ones in one transaction
saveInvoiceLines(table, invoiceNumber, agreementNumber, customerNumber, lines) ==
  IF lines = <<>>
  THEN table
  ELSE {r \in table : ~(/\ invoiceNumber # NULL /\ agreementNumber # NULL
                        /\ customerNumber # NULL
                        /\ r.invoice_id = invoiceNumber
                        /\ r.agreement_number = agreementNumber
                        /\ r.customer_number = customerNumber)}
       \cup insertedLines(table, invoiceNumber, agreementNumber, customerNumber, lines)

\* syncAgreementInvoices, lines 200-226: the loop over the invoices of one
\* listing; s carries the store, the count and whether smartUpsert threw
RECURSIVE syncInvoicesOfType(_, _, _, _, _, _)
syncInvoicesOfType(s, list, type, token, agreementNumber, now) ==
  IF list = <<>>
  THEN s
  ELSE LET invoice == Head(list)
           invoiceData == transformInvoiceData(invoice, type, agreementNumber, now)
           saved == smartUpsert(s.invoices, s.nextId, s.clock + 1, invoiceData,
                                agreementNumber)
           invoiceNumber == IF type = "draft" THEN invoice.draftInvoiceNumber
                            ELSE IF invoice.bookedInvoiceNumber # NULL
                                 THEN invoice.bookedInvoiceNumber
                                 ELSE invoice.draftInvoiceNumber
           detailedInvoice == getDetailedInvoice(token, invoice)
           lines == transformInvoiceLines(detailedInvoice, invoiceNumber,
                                          agreementNumber)
       IN IF saved.threw
          THEN [s EXCEPT !.threw = TRUE]
          ELSE syncInvoicesOfType(
                 [s EXCEPT !.invoices = saved.table,
                           !.nextId = @ + saved.inserted,
                           !.clock = @ + 1,
                           !.invoice_lines =
                              IF detailedInvoice.found
                              THEN saveInvoiceLines(@, invoiceNumber, agreementNumber,
                                                    invoiceData.customer_number, lines)
                              ELSE @,
                           !.recordCount = @ + 1],
                 Tail(list), type, token, agreementNumber, now)

\* a loop over the types with no try/catch inside: the failure of a type
\* leaves the loop for the catch block of the function
RECURSIVE syncTypesNoCatch(_, _, _, _, _)
syncTypesNoCatch(s, types, token, agreementNumber, now) ==
  IF types = <<>>
  THEN s
  ELSE LET type == Head(types)
           r == syncInvoicesOfType([s EXCEPT !.recordCount = 0, !.threw = FALSE],
                                   listingOf(type), type, token, agreementNumber, now)
           failed == fails(token, type, NULL, NULL) \/ r.threw
           kept == IF fails(token, type, NULL, NULL) THEN s ELSE r
       IN IF failed
          THEN [kept EXCEPT
                  !.threw = TRUE,
                  !.logs = recordSyncLog(@, <<"invoices_agreement">>, "sync",
                                         "error", 0, logsUp)]
          ELSE syncTypesNoCatch(
                 [kept EXCEPT
                    !.logs = recordSyncLog(@, invoiceEntity(type), "sync", "success",
                                           r.recordCount, logsUp),
                    !.results = Append(@, [type |-> type, status |-> "success",
                                           count |-> r.recordCount]),
                    !.totalCount = @ + r.recordCount],
                 Tail(types), token, agreementNumber, now)

\* syncAgreementInvoices, lines 181-267: the loop over the types, each in
\* its own try/catch
RECURSIVE syncTypes(_, _, _, _, _)
syncTypes(s, types, token, agreementNumber, now) ==
  IF types = <<>>
  THEN s
  ELSE LET type == Head(types)
           r == syncInvoicesOfType([s EXCEPT !.recordCount = 0, !.threw = FALSE],
                                   listingOf(type), type, token, agreementNumber, now)
           failed == fails(token, type, NULL, NULL) \/ r.threw
           kept == IF fails(token, type, NULL, NULL) THEN s ELSE r
       IN syncTypes(
            [kept EXCEPT
               !.threw = FALSE,
               !.logs = recordSyncLog(@, invoiceEntity(type), "sync",
                                      IF failed THEN "error" ELSE "success",
                                      IF failed THEN 0 ELSE r.recordCount, logsUp),
               !.results = Append(@, [type |-> type,
                                      status |-> IF failed THEN "error" ELSE "success",
                                      count |-> IF failed THEN 0 ELSE r.recordCount]),
               !.totalCount = IF failed THEN @ ELSE @ + r.recordCount],
            Tail(types), token, agreementNumber, now)

\* AgreementModel.update(id, {agreement_number}) on the registry
agreementUpdate(registry, id, agreementNumber) ==
  [i \in 1..Len(registry) |->
     IF registry[i].id = id
     THEN [registry[i] EXCEPT !.agreement_number = agreementNumber]
     ELSE registry[i]]

\* the store a sync pass works on
storeOf ==
  [invoices |-> invoices, nextId |-> nextId, clock |-> clock,
   invoice_lines |-> invoice_lines, accounts |-> accounts,
   logs |-> sync_logs, agreements |-> agreements,
   recordCount |-> 0, threw |-> FALSE, results |-> <<>>, totalCount |-> 0]

\* InvoiceService.syncAgreementInvoices(agreement, types) on the store s
syncAgreementInvoicesOfTypes(s, agreement, types, now) ==
  LET token == forAgreement(agreement.agreement_grant_token)
      agreementInfo == getAgreementInfo(token)
      agreementNumber == agreementInfo.agreementNumber
      needsUpdate == \/ agreement.agreement_number = NULL
                     \/ agreement.agreement_number # agreementNumber
      healed == IF needsUpdate
                THEN [s EXCEPT !.agreements =
                                  agreementUpdate(@, agreement.id, agreementNumber)]
                ELSE s
  IN IF ~agreementInfo.ok
     THEN [s EXCEPT !.threw = TRUE,
                    !.logs = recordSyncLog(@, <<"invoices_agreement">>, "sync",
                                           "error", 0, logsUp)]
     ELSE syncTypes(healed, types, token, agreementNumber, now)

\* InvoiceService.syncAgreementInvoices(agreement): every listing type
syncAgreementInvoices(s, agreement, now) ==
  syncAgreementInvoicesOfTypes(s, agreement, defaultTypes, now)

\* ------------------------------------------------------ the accounts pass
\* AccountService.transformAccountData
transformAccountData(account, agreementNumber) ==
  [account_number |-> account.accountNumber, agreement_number |-> agreementNumber,
   balance |-> account.balance]

\* AccountModel.upsert(accountData) on the table: find by (account_number,
\* agreement_number), UPDATE the match or INSERT
accountUpsert(table, accountData) ==
  {r \in table : ~(/\ r.account_number = accountData.account_number
                   /\ r.agreement_number = accountData.agreement_number)}
  \cup {accountData}

\* syncAccountsForAgreement, lines 47-51: the loop over the listing
RECURSIVE upsertAccounts(_, _, _)
upsertAccounts(table, list, agreementNumber) ==
  IF list = <<>>
  THEN table
  ELSE upsertAccounts(accountUpsert(table, transformAccountData(Head(list),
                                                               agreementNumber)),
                      Tail(list), agreementNumber)

\* AccountService.syncAccountsForAgreement(agreement) on the store s
syncAccountsForAgreement(s, agreement) ==
  LET token == forAgreement(agreement.agreement_grant_token)
      agreementInfo == getAgreementInfo(token)
      agreementNumber == agreementInfo.agreementNumber
  IN IF ~agreementInfo.ok \/ fails(token, "accounts", NULL, NULL)
     THEN [s EXCEPT !.threw = TRUE,
                    !.logs = recordSyncLog(@, <<"accounts",
                                                orUnknown(agreement.agreement_number)>>,
                                           "sync", "error", 0, logsUp)]
     ELSE [s EXCEPT !.accounts = upsertAccounts(@, remote.accountList, agreementNumber),
                    !.totalCount = Len(remote.accountList),
                    !.logs = recordSyncLog(@, <<"accounts", agreementNumber>>, "sync",
                                           "success", Len(remote.accountList), logsUp)]

\* -------------------------------------------------------- the sync calls
\* the sync calls of one behaviour
MaxCalls == 2

\* a sync that takes the number stored in the Agreement record
numberOfRecord(agreement) == agreement.agreement_number

\* the agreementNumber the remote answers for the agreement of the frame
numberOf(agreement) == selfNumber(forAgreement(agreement.agreement_grant_token))

\* a syncAll whose loop over the agreements has no try/catch: the throw of
\* one agreement's sync is the throw of syncAll
afterAgreementNoCatch(frame, threw, count) ==
  IF threw
  THEN [frame EXCEPT !.threw = TRUE, !.queue = <<>>]
  ELSE [frame EXCEPT !.results = Append(@, [id |-> Head(frame.queue).id,
                                            status |-> "", count |-> count]),
                     !.totalCount = @ + count,
                     !.queue = Tail(@)]

\* syncAll, the body of the loop over the agreements: the result of the
\* agreement's sync is pushed and counted; its throw is caught and pushed as
\* an error result (a success result carries no status field)
afterAgreement(frame, threw, count) ==
  [frame EXCEPT !.results = Append(@, [id |-> Head(frame.queue).id,
                                       status |-> IF threw THEN "error" ELSE "",
                                       count |-> IF threw THEN 0 ELSE count]),
                !.totalCount = IF threw THEN @ ELSE @ + count,
                !.queue = Tail(@)]

\* the loop of syncDraftInvoices, syncBookedInvoices, syncPaidInvoices,
\* syncUnpaidInvoices, syncOverdueInvoices and syncNotDueInvoices: the
\* result of the agreement's sync is pushed and counted; its throw is caught
\* and logged, and nothing is pushed
afterAgreementOfType(frame, threw, count) ==
  [frame EXCEPT !.results = IF threw THEN @
                            ELSE Append(@, [id |-> Head(frame.queue).id,
                                            status |-> "", count |-> count]),
                !.totalCount = IF threw THEN @ ELSE @ + count,
                !.queue = Tail(@)]

\* sync...ByAgreementId: the result or the throw of the agreement's sync is
\* the call's
afterSingle(frame, threw, count) ==
  [frame EXCEPT !.results = IF threw THEN <<>>
                            ELSE <<[id |-> Head(frame.queue).id, status |-> "",
                                    count |-> count]>>,
                !.totalCount = IF threw THEN 0 ELSE count,
                !.threw = threw,
                !.queue = <<>>]

\* the frame after the sync of the agreement at the head of the queue ended:
\* the sync threw when one of its steps failed; every sync awaits
\* recordSyncLog before it returns or rethrows, so an error leaving
\* recordSyncLog would leave the sync in place of its result or its error
settled(frame, agreement, failed, count) ==
  LET threw == failed \/ logErrorEscapes(logsUp)
      f == IF frame.mode = "all"
           THEN afterAgreement(frame, threw, count)
           ELSE IF frame.mode = "type"
                THEN afterAgreementOfType(frame, threw, count)
                ELSE afterSingle(frame, threw, count)
  IN [f EXCEPT !.at = "agreement",
               !.outcomes = Append(@, [id |-> agreement.id,
                                       agreementNumber |-> numberOf(agreement),
                                       threw |-> threw,
                                       count |-> IF threw THEN 0 ELSE count,
                                       error |-> IF logErrorEscapes(logsUp)
                                                 THEN "sync_logs"
                                                 ELSE frame.failedAt,
                                       failedAt |-> frame.failedAt,
                                       year |-> frame.failYear,
                                       period |-> frame.failPeriod,
                                       selfCalls |-> frame.selfCalls,
                                       results |-> frame.typeResults]),
               !.agreement = NoAgreement,
               !.years = <<>>, !.yearCount = 0, !.year = NULL,
               !.periods = <<>>, !.periodCount = 0, !.period = NULL,
               !.failedAt = "", !.failYear = NULL, !.failPeriod = NULL,
               !.selfCalls = 0, !.typeResults = <<>>]

\* the record a finished call leaves
passOf(f, rows, now, logs) ==
  [mode |-> f.mode,
   id |-> IF f.mode = "single" THEN f.outcomes[1].id ELSE 0,
   threw |-> f.threw \/ (f.mode = "all" /\ f.status = "" /\ family = "invoices"
                          /\ logErrorEscapes(logsUp)),
   status |-> IF f.mode \notin {"all", "type"} THEN ""
              ELSE IF f.status # "" THEN f.status
              ELSE IF f.threw THEN "error" ELSE "success",
   active |-> f.active,
   results |-> f.results, totalCount |-> f.totalCount, outcomes |-> f.outcomes,
   rows |-> rows, today |-> now, requests |-> f.requests, logs |-> Len(logs),
   types |-> IF family # "invoices" THEN <<>>
             ELSE IF f.types = <<>> THEN defaultTypes ELSE f.types]

\* the call goes on with frame f, or returns when its queue is empty;
\* syncAllInvoices records 'invoices_all_agreements' before it returns
Continue(f, logs, calls) ==
  /\ sync_logs' =
       IF f.queue = <<>> /\ f.mode = "all" /\ family = "invoices" /\ f.status = ""
       THEN recordSyncLog(logs, <<"invoices_all_agreements">>, "sync",
                          IF f.threw THEN "error" ELSE "success", f.totalCount, logsUp)
       ELSE logs
  /\ pc' = IF f.queue = <<>> THEN NoSync ELSE f
  /\ passes' = IF f.queue = <<>>
               THEN [calls |-> calls, prev |-> passes.last,
                     last |-> passOf(f, entityRows', today, sync_logs')]
               ELSE [passes EXCEPT !.calls = calls]

\* a syncAll without the guard on the number of agreements: the loop runs
\* over nothing and the call ends on its success path
syncAllBeginNoGuard(active) ==
  [NoSync EXCEPT !.at = "agreement", !.mode = "all",
                 !.queue = active, !.active = Len(active)]

\* syncAll up to its loop: with no active agreement the call returns
\* {status: 'warning', results: [], totalCount: 0} at once
syncAllBegin(active) ==
  [NoSync EXCEPT !.at = "agreement", !.mode = "all",
                 !.queue = active, !.active = Len(active),
                 !.status = IF Len(active) = 0 THEN "warning" ELSE ""]

\* syncAllInvoices / syncAllAccountingYears / syncAllAccounts is called
SyncAllCall ==
  LET active == getActiveAgreements(agreements)
  IN /\ pc.at = "idle"
     /\ passes.calls < MaxCalls
     /\ UNCHANGED <<family, storeVars, today, lastCall, agreements, apiVars,
                    invoice_lines, accounts, accounting_totals, remote>>
     /\ Continue(syncAllBegin(active), sync_logs, passes.calls + 1)

\* syncDraftInvoices, ..., syncNotDueInvoices is called: the loop over the
\* active agreements syncs the one listing type; with no active agreement
\* the call returns {status: 'warning', type, count: 0}
SyncTypeCall(type) ==
  LET active == getActiveAgreements(agreements)
  IN /\ pc.at = "idle"
     /\ family = "invoices"
     /\ passes.calls < MaxCalls
     /\ UNCHANGED <<family, storeVars, today, lastCall, agreements, apiVars,
                    invoice_lines, accounts, accounting_totals, remote>>
     /\ Continue([syncAllBegin(active) EXCEPT !.mode = "type",
                                              !.types = <<type>>],
                 sync_logs, passes.calls + 1)

\* the per-agreement entry point is called: AgreementModel.getById
SyncByAgreementCall(i) ==
  /\ pc.at = "idle"
  /\ passes.calls < MaxCalls
  /\ UNCHANGED <<family, storeVars, today, lastCall, agreements, apiVars,
                 invoice_lines, accounts, accounting_totals, remote>>
  /\ Continue([NoSync EXCEPT !.at = "agreement", !.mode = "single",
                             !.queue = <<agreements[i]>>, !.active = 1],
              sync_logs, passes.calls + 1)

\* InvoiceService.syncAgreementInvoices(agreement)
SyncAgreementInvoices ==
  LET agreement == Head(pc.queue)
      r == syncAgreementInvoicesOfTypes(storeOf, agreement,
                                        IF pc.types = <<>> THEN defaultTypes
                                        ELSE pc.types, today)
  IN /\ pc.at = "agreement"
     /\ family = "invoices"
     /\ invoices' = r.invoices
     /\ nextId' = r.nextId
     /\ clock' = r.clock
     /\ invoice_lines' = r.invoice_lines
     /\ agreements' = r.agreements
     /\ UNCHANGED <<family, acctVars, today, lastCall, apiVars, accounts,
                    accounting_totals, remote>>
     /\ Continue(settled([selfRequest(pc, agreement) EXCEPT
                            !.failedAt = IF r.threw THEN "self" ELSE "",
                            !.typeResults = r.results],
                         agreement, r.threw, r.totalCount),
                 r.logs, passes.calls)

\* AccountService.syncAccountsForAgreement(agreement)
SyncAccountsForAgreement ==
  LET agreement == Head(pc.queue)
      r == syncAccountsForAgreement(storeOf, agreement)
  IN /\ pc.at = "agreement"
     /\ family = "accounts"
     /\ accounts' = r.accounts
     /\ UNCHANGED <<family, storeVars, today, lastCall, agreements, apiVars,
                    invoice_lines, accounting_totals, remote>>
     /\ Continue(settled([selfRequest(pc, agreement) EXCEPT
                            !.failedAt = IF r.threw THEN "accounts" ELSE ""],
                         agreement, r.threw, r.totalCount),
                 r.logs, passes.calls)

\* ------------------------------------------- the hierarchical accounting sync
\* the listings of the remote
remotePeriods == remote.periods
remoteEntries(periodNumber) ==
  [i \in 1..remote.entries |-> [entryNumber |-> 10 * periodNumber + i, amount |-> 10]]

\* a loop that wraps the call of the child sync in try/catch and goes on
\* with the next child
childCaught(frame, child) ==
  CASE child = "entries" -> [frame EXCEPT !.at = "totals"]
    [] child = "totals" -> [frame EXCEPT !.at = "period", !.periods = Tail(@)]
    [] child = "yearTotals" -> [frame EXCEPT !.at = "periodsEnd"]
    [] OTHER -> [frame EXCEPT !.at = "year", !.years = Tail(@)]

\* the child sync called in the loop threw: the loops of
\* syncAccountingYearsForAgreement and syncAccountingPeriodsForYear await the
\* child with no try/catch of their own, so the throw leaves the loop for the
\* catch block of the function
childThrew(frame, child) == [frame EXCEPT !.at = "catch"]

\* the catch block of syncAccountingYearsForAgreement: log and rethrow
throwInYears(f, logs) ==
  [frame |-> [f EXCEPT !.at = "thrown"],
   logs |-> recordSyncLog(logs, <<"accounting_years",
                                  orUnknown(f.agreement.agreement_number)>>,
                          "sync", "error", f.yearCount, logsUp)]

\* the catch block of syncAccountingPeriodsForYear: log and rethrow into the
\* year loop
throwInPeriods(f, logs) ==
  LET logged == recordSyncLog(logs, <<"accounting_periods", f.year,
                                      orUnknown(f.agreement.agreement_number)>>,
                              "sync", "error", f.periodCount, logsUp)
      f1 == childThrew(f, "periods")
  IN IF f1.at = "catch"
     THEN throwInYears(f1, logged)
     ELSE [frame |-> f1, logs |-> logged]

\* the catch block of a child sync of the period loop has logged and
\* rethrown into the loop
throwFromChild(f, logs, child) ==
  LET f1 == childThrew(f, child)
  IN IF f1.at = "catch"
     THEN throwInPeriods(f1, logs)
     ELSE [frame |-> f1, logs |-> logs]

\* the frame f and the logs after a step of the accounting sync: the sync
\* of the agreement goes on, has returned or has thrown
AccountingStep(r) ==
  IF r.frame.at \in {"thrown", "returned"}
  THEN Continue(settled(r.frame, r.frame.agreement, r.frame.at = "thrown",
                        r.frame.yearCount),
                r.logs, passes.calls)
  ELSE Continue(r.frame, r.logs, passes.calls)

\* syncAccountingYearsForAgreement, lines 321-332: the client, the
\* agreement number and the listing of the years
SyncAccountingYearsBegin ==
  LET agreement == Head(pc.queue)
      token == forAgreement(agreement.agreement_grant_token)
      f == [selfRequest(pc, agreement) EXCEPT !.agreement = agreement,
                                              !.yearCount = 0]
  IN /\ pc.at = "agreement"
     /\ family = "accounting"
     /\ UNCHANGED <<family, storeVars, today, lastCall, agreements, apiVars,
                    invoice_lines, accounts, accounting_totals, remote>>
     /\ AccountingStep(
          IF ~getAgreementInfo(token).ok
          THEN throwInYears([f EXCEPT !.failedAt = "self"], sync_logs)
          ELSE IF fails(token, "years", NULL, NULL)
               THEN throwInYears([f EXCEPT !.failedAt = "years"], sync_logs)
               ELSE [frame |-> [f EXCEPT !.at = "year", !.years = remote.years],
                     logs |-> sync_logs])

\* syncAccountingYearsForAgreement, lines 334-359: the year loop upserts the
\* next year; after the last year the sync is logged and returns
YearStep ==
  LET agreementNumber == numberOf(pc.agreement)
      year == Head(pc.years)
      res == yearUpsert(accounting_years,
                        transformAccountingYearData(year, agreementNumber))
  IN /\ pc.at = "year"
     /\ accounting_years' = IF pc.years = <<>> THEN accounting_years ELSE res.table
     /\ UNCHANGED <<family, invVars, clock, accounting_periods, accounting_entries,
                    today, lastCall, agreements, apiVars,
                    invoice_lines, accounts, accounting_totals, remote>>
     /\ AccountingStep(
          IF pc.years = <<>>
          THEN [frame |-> [pc EXCEPT !.at = "returned"],
                logs |-> recordSyncLog(sync_logs, <<"accounting_years", agreementNumber>>,
                                       "sync", "success", pc.yearCount, logsUp)]
          ELSE IF res.threw
               THEN throwInYears([pc EXCEPT !.failedAt = "yearUpsert",
                                            !.failYear = year.year], sync_logs)
               ELSE [frame |-> [pc EXCEPT !.at = "periods", !.yearCount = @ + 1,
                                          !.year = year.year, !.periodCount = 0],
                     logs |-> sync_logs])

\* syncAccountingPeriodsForYear, lines 379-390: the listing of the periods
PeriodsBegin ==
  LET asked == selfRequest(pc, pc.agreement)
      token == forAgreement(pc.agreement.agreement_grant_token)
  IN /\ pc.at = "periods"
     /\ UNCHANGED <<family, storeVars, today, lastCall, agreements, apiVars,
                    invoice_lines, accounts, accounting_totals, remote>>
     /\ AccountingStep(
          IF ~getAgreementInfo(token).ok \/ fails(token, "periods", pc.year, NULL)
          THEN throwInPeriods([asked EXCEPT !.failedAt = "periods", !.failYear = pc.year],
                              sync_logs)
          ELSE [frame |-> [asked EXCEPT !.at = "period", !.periods = remotePeriods],
                logs |-> sync_logs])

\* syncAccountingPeriodsForYear, lines 392-395: the period loop upserts the
\* next period; after the last period the totals of the year are next
PeriodStep ==
  LET agreementNumber == numberOf(pc.agreement)
      period == Head(pc.periods)
      res == periodUpsert(accounting_periods, accounting_years,
                          transformAccountingPeriodData(period, pc.year,
                                                        agreementNumber))
  IN /\ pc.at = "period"
     /\ accounting_periods' = IF pc.periods = <<>> THEN accounting_periods
                              ELSE res.table
     /\ UNCHANGED <<family, invVars, clock, accounting_years, accounting_entries,
                    today, lastCall, agreements, apiVars,
                    invoice_lines, accounts, accounting_totals, remote>>
     /\ AccountingStep(
          IF pc.periods = <<>>
          THEN [frame |-> [pc EXCEPT !.at = "yearTotals", !.period = NULL],
                logs |-> sync_logs]
          ELSE IF res.threw
               THEN throwInPeriods([pc EXCEPT !.failedAt = "periodUpsert",
                                              !.failYear = pc.year,
                                              !.failPeriod = period.periodNumber],
                                   sync_logs)
               ELSE [frame |-> [pc EXCEPT !.at = "entries", !.periodCount = @ + 1,
                                          !.period = period.periodNumber],
                     logs |-> sync_logs])

\* AccountingYearService.syncAccountingEntriesForPeriod
SyncAccountingEntriesForPeriod ==
  LET asked == selfRequest(pc, pc.agreement)
      token == forAgreement(pc.agreement.agreement_grant_token)
      agreementNumber == numberOf(pc.agreement)
      fetched == getAgreementInfo(token).ok
                 /\ ~fails(token, "entries", pc.year, pc.period)
      entries == [i \in 1..remote.entries |->
                    transformAccountingEntryData(remoteEntries(pc.period)[i], pc.year,
                                                 pc.period, agreementNumber)]
      res == syncEntryBatches(accounting_entries, accounting_periods, entries, 0, 0)
      ok == fetched /\ res.ok
      count == IF fetched THEN res.recordCount ELSE 0
      logs == recordSyncLog(
                sync_logs,
                <<"accounting_entries", pc.year, pc.period,
                  IF ok THEN agreementNumber
                  ELSE orUnknown(pc.agreement.agreement_number)>>,
                "sync", IF ok THEN "success" ELSE "error", count, logsUp)
  IN /\ pc.at = "entries"
     /\ accounting_entries' = IF fetched THEN res.table ELSE accounting_entries
     /\ UNCHANGED <<family, invVars, clock, accounting_years, accounting_periods,
                    today, lastCall, agreements, apiVars,
                    invoice_lines, accounts, accounting_totals, remote>>
     /\ AccountingStep(
          IF ok
          THEN [frame |-> [asked EXCEPT !.at = "totals"], logs |-> logs]
          ELSE throwFromChild([asked EXCEPT !.failedAt = "entries",
                                         !.failYear = pc.year,
                                         !.failPeriod = pc.period],
                              logs, "entries"))

\* the totals the remote lists for a period, or for the whole year (NULL):
\* the total of an account over a year is not its total over a period
remoteTotals(periodNumber) ==
  [i \in 1..Len(remote.totals) |->
     [remote.totals[i] EXCEPT !.totalInBaseCurrency =
        IF periodNumber = NULL THEN 2 * @ ELSE @ + periodNumber]]

\* the totals of a period (periodNumber) or of a year (NULL) are fetched,
\* transformed and handed to AccountingTotalModel.batchUpsert
syncTotals(table, years, token, agreementNumber, year, periodNumber) ==
  LET fetched == getAgreementInfo(token).ok
                 /\ ~fails(token, "totals", year, periodNumber)
      totals == [i \in 1..Len(remote.totals) |->
                   transformAccountingTotalData(remoteTotals(periodNumber)[i], year, periodNumber,
                                                agreementNumber)]
      res == totalBatchUpsert(table, years, totals, 0,
                              [inserted |-> 0, updated |-> 0])
  IN [ok |-> fetched /\ res.ok,
      table |-> IF fetched THEN res.table ELSE table,
      recordCount |-> IF fetched /\ res.ok THEN res.inserted + res.updated ELSE 0]

\* the sync_logs row of AccountingTotalModel.recordSyncLog
totalsLog(logs, agreement, year, periodNumber, res) ==
  recordSyncLog(logs,
                <<"accounting_totals", year, periodNumber,
                  IF res.ok THEN numberOf(agreement)
                  ELSE orUnknown(agreement.agreement_number)>>,
                "sync", IF res.ok THEN "success" ELSE "error", res.recordCount, logsUp)

\* AccountingYearService.syncAccountingTotalsForPeriod; after it the period
\* loop goes to the next period
SyncAccountingTotalsForPeriod ==
  LET asked == selfRequest(pc, pc.agreement)
      res == syncTotals(accounting_totals, accounting_years,
                        forAgreement(pc.agreement.agreement_grant_token),
                        numberOf(pc.agreement), pc.year, pc.period)
      logs == totalsLog(sync_logs, pc.agreement, pc.year, pc.period, res)
  IN /\ pc.at = "totals"
     /\ accounting_totals' = res.table
     /\ UNCHANGED <<family, storeVars, today, lastCall, agreements, apiVars,
                    invoice_lines, accounts, remote>>
     /\ AccountingStep(
          IF res.ok
          THEN [frame |-> [asked EXCEPT !.at = "period", !.periods = Tail(@)],
                logs |-> logs]
          ELSE throwFromChild([asked EXCEPT !.failedAt = "totals",
                                         !.failYear = pc.year,
                                         !.failPeriod = pc.period],
                              logs, "totals"))

\* AccountingYearService.syncAccountingTotalsForYear, after the period loop
SyncAccountingTotalsForYear ==
  LET asked == selfRequest(pc, pc.agreement)
      res == syncTotals(accounting_totals, accounting_years,
                        forAgreement(pc.agreement.agreement_grant_token),
                        numberOf(pc.agreement), pc.year, NULL)
      logs == totalsLog(sync_logs, pc.agreement, pc.year, NULL, res)
  IN /\ pc.at = "yearTotals"
     /\ accounting_totals' = res.table
     /\ UNCHANGED <<family, storeVars, today, lastCall, agreements, apiVars,
                    invoice_lines, accounts, remote>>
     /\ AccountingStep(
          IF res.ok
          THEN [frame |-> [asked EXCEPT !.at = "periodsEnd"], logs |-> logs]
          ELSE throwFromChild([asked EXCEPT !.failedAt = "yearTotals",
                                         !.failYear = pc.year],
                              logs, "yearTotals"))

\* syncAccountingPeriodsForYear, lines 405-423: the sync of the periods is
\* logged and returns into the year loop
PeriodsEnd ==
  /\ pc.at = "periodsEnd"
  /\ UNCHANGED <<family, storeVars, today, lastCall, agreements, apiVars,
                 invoice_lines, accounts, accounting_totals, remote>>
  /\ AccountingStep(
       [frame |-> [pc EXCEPT !.at = "year", !.years = Tail(@), !.year = NULL,
                             !.periodCount = 0],
        logs |-> recordSyncLog(sync_logs, <<"accounting_periods", pc.year,
                                            numberOf(pc.agreement)>>,
                               "sync", "success", pc.periodCount, logsUp)])

\* ------------------------------------------------ the sync specification
SyncFamilies == {"invoices", "accounting", "accounts"}

\* the registries of the sync specification: three active agreements; or an
\* agreement whose stored number is missing, and an inactive one with no
\* token of its own whose stored number is not the remote's; or no active
\* agreement at all
SyncRegistries ==
  {<<Agreement(1, 1, "t1", TRUE), Agreement(2, 2, "t2", TRUE),
     Agreement(3, 3, "t3", TRUE)>>,
   <<Agreement(1, NULL, "t1", TRUE), Agreement(2, 2, "t2", TRUE),
     Agreement(3, 3, "", FALSE)>>,
   <<Agreement(3, 3, "t3", FALSE)>>}

RemoteInvoice(draft, booked, customer, remainder) ==
  [draftInvoiceNumber |-> draft, bookedInvoiceNumber |-> booked,
   customerNumber |-> customer, remainder |-> remainder, dueDate |-> 2,
   netAmount |-> 10]

\* the requests of tenant "t2" the remote may answer with an error
Failing(endpoints) ==
  {{}} \cup {{<<"t2", e[1], e[2], e[3]>>} : e \in endpoints}

\* the remotes of the three families
Remotes(fam) ==
  CASE fam = "invoices" ->
         {[NoRemote EXCEPT !.failing = failing, !.drafts = drafts,
                           !.booked = booked, !.overdue = overdue, !.lines = lines] :
            failing \in Failing({<<"self", NULL, NULL>>, <<"booked", NULL, NULL>>,
                                 <<"detail", NULL, NULL>>}),
            drafts \in {<<>>, <<RemoteInvoice(1, NULL, 1, UNDEF)>>},
            booked \in {<<>>,
                        <<RemoteInvoice(NULL, 1, 1, 5)>>,
                        <<RemoteInvoice(NULL, 1, 1, 0), RemoteInvoice(NULL, 2, 1, 5)>>,
                        <<RemoteInvoice(NULL, 2, NULL, 5), RemoteInvoice(NULL, 1, 1, 5)>>},
            overdue \in BOOLEAN,
            lines \in {<<>>, <<1, 2>>}}
    [] fam = "accounts" ->
         {[NoRemote EXCEPT !.failing = failing, !.accountList = accountList] :
            failing \in Failing({<<"self", NULL, NULL>>, <<"accounts", NULL, NULL>>}),
            accountList \in {<<>>,
                             <<[accountNumber |-> 1000, balance |-> 10]>>,
                             <<[accountNumber |-> 1000, balance |-> 10],
                               [accountNumber |-> 2000, balance |-> 20]>>}}
    [] OTHER ->
         {[NoRemote EXCEPT !.failing = failing, !.years = years,
                           !.periods = periods, !.entries = entries,
                           !.totals = totals] :
            failing \in Failing({<<"self", NULL, NULL>>, <<"years", NULL, NULL>>,
                                 <<"periods", 2024, NULL>>,
                                 <<"entries", 2024, 1>>, <<"entries", 2024, 2>>,
                                 <<"totals", 2024, 1>>, <<"totals", 2024, 2>>,
                                 <<"totals", 2024, NULL>>}),
            years \in {<<[year |-> 2024, fromDate |-> 1]>>,
                       <<[year |-> 2024, fromDate |-> 1],
                         [year |-> 2025, fromDate |-> 2]>>},
            periods \in {<<>>,
                         <<[periodNumber |-> 1, fromDate |-> 1]>>,
                         <<[periodNumber |-> 1, fromDate |-> 1],
                           [periodNumber |-> 2, fromDate |-> 2]>>},
            entries \in {0, 3},
            totals \in {<<>>, <<[accountNumber |-> 1000, totalInBaseCurrency |-> 50]>>}}

\* --------------------------------------------- the store call of the lines
\* the saveInvoiceLines calls of one behaviour
MaxSaves == 3
\* the line numbers a detailed invoice carries
LineLists == {<<>>, <<1>>, <<1, 2>>}

\* InvoiceModel.saveInvoiceLines(invoiceNumber, agreementNumber,
\* customerNumber, lines) as the invoice sync calls it, with the rows
\* transformInvoiceLines builds from the detailed invoice
SaveInvoiceLines(invoiceNumber, agreementNumber, customerNumber, lineNumbers) ==
  LET lines == transformInvoiceLines([customerNumber |-> customerNumber,
                                      lines |-> lineNumbers],
                                     invoiceNumber, agreementNumber)
      n == IF lastCall.fn = "saveInvoiceLines" THEN lastCall.n ELSE 0
  IN /\ family = "lines"
     /\ n < MaxSaves
     /\ invoice_lines' = saveInvoiceLines(invoice_lines, invoiceNumber,
                                          agreementNumber, customerNumber, lines)
     /\ lastCall' = [fn |-> "saveInvoiceLines", invoiceNumber |-> invoiceNumber,
                     agreementNumber |-> agreementNumber,
                     customerNumber |-> customerNumber, lines |-> lines,
                     n |-> n + 1]
     /\ UNCHANGED <<family, storeVars, today, regVars, apiVars, accounts,
                    accounting_totals, remote, pc, passes>>

\* the date of the process moves on, past the due date of the invoices
Tick ==
  /\ family = "invoices"
  /\ today = 1
  /\ today' = 3
  /\ UNCHANGED <<family, storeVars, lastCall, regVars, apiVars, syncVars>>

\* ------------------------------------------------ the sync-everything run
\* SyncController.syncAll awaits the syncAll of each family in turn inside
\* one try block and answers with a summary; its catch hands the error on
ControllerFamilies ==
  <<"paymentTerms", "productGroups", "products", "vatAccounts",
    "supplierGroups", "suppliers", "invoices">>

\* what the syncAll of one family hands to its caller: the warning object of
\* an empty registry, the success object with its total, or the error it
\* rethrows when the registry cannot be read
FamilyOutcomes ==
  {[threw |-> FALSE, status |-> "warning", totalCount |-> 0],
   [threw |-> FALSE, status |-> "success", totalCount |-> 0],
   [threw |-> FALSE, status |-> "success", totalCount |-> 1],
   [threw |-> TRUE, status |-> "", totalCount |-> 0]}

\* every variable but the call in progress and the last answer
restVars ==
  <<family, storeVars, today, regVars, apiVars, invoice_lines, accounts,
    accounting_totals, remote, passes>>

NoController == [fn |-> "", step |-> 0, results |-> <<>>, failed |-> {}]

\* the results object of the response: count and status of each family
summaryOf(results) ==
  [i \in 1..Len(results) |->
     [family |-> ControllerFamilies[i],
      count |-> results[i].totalCount,
      status |-> IF results[i].status = "" THEN "unknown"
                 ELSE results[i].status]]

ControllerSyncAllBegin ==
  /\ pc = NoController
  /\ lastCall = NoCall
  /\ pc' = [NoController EXCEPT !.fn = "syncAll", !.step = 1]
  /\ UNCHANGED <<restVars, lastCall>>

\* one awaited family: its result is kept, or its error ends the try block
ControllerFamilyStep(outcome) ==
  /\ pc.fn = "syncAll"
  /\ pc.step \in 1..Len(ControllerFamilies)
  /\ IF outcome.threw
       THEN /\ pc' = [NoController EXCEPT !.fn = "done"]
            /\ lastCall' = [fn |-> "syncAll", response |-> "next",
                            status |-> "error",
                            attempted |-> pc.step,
                            failed |-> pc.failed \cup {pc.step},
                            results |-> <<>>]
       ELSE /\ pc' = [pc EXCEPT !.step = @ + 1,
                                !.results = Append(@, outcome)]
            /\ UNCHANGED lastCall
  /\ UNCHANGED restVars

\* every family has answered: the summary is sent
ControllerRespond ==
  /\ pc.fn = "syncAll"
  /\ pc.step = Len(ControllerFamilies) + 1
  /\ pc' = [NoController EXCEPT !.fn = "done"]
  /\ lastCall' = [fn |-> "syncAll", response |-> "json",
                  status |-> "success",
                  attempted |-> Len(ControllerFamilies),
                  failed |-> pc.failed,
                  results |-> summaryOf(pc.results)]
  /\ UNCHANGED restVars

InitController ==
  /\ family = "invoices"
  /\ invoices = {}
  /\ accounting_years = {}
  /\ accounting_periods = {}
  /\ accounting_entries = {}
  /\ nextId = 1
  /\ clock = 0
  /\ today = 1
  /\ lastCall = NoCall
  /\ agreements = <<>>
  /\ sync_logs = <<>>
  /\ server = NoServer
  /\ pager = NoPager
  /\ invoice_lines = {}
  /\ accounts = {}
  /\ accounting_totals = {}
  /\ remote = NoRemote
  /\ pc = NoController
  /\ passes = NoPasses

NextController ==
  \/ ControllerSyncAllBegin
  \/ \E outcome \in FamilyOutcomes : ControllerFamilyStep(outcome)
  \/ ControllerRespond

SpecController == InitController /\ [][NextController]_vars

\* ------------------------------------------------ the on-demand totals syncs
\* AccountingYearController.syncAccountingPeriodTotals: the agreement is read
\* by id and syncAccountingTotalsForPeriod runs for the year and the period
\* of the request, whatever the store holds
SyncAccountingPeriodTotals(i, year, periodNumber) ==
  LET agreement == agreements[i]
      res == syncTotals(accounting_totals, accounting_years,
                        forAgreement(agreement.agreement_grant_token),
                        numberOf(agreement), year, periodNumber)
  IN /\ pc.at = "idle"
     /\ family = "accounting"
     /\ passes.calls < MaxCalls
     \* the request names a period the remote has
     /\ \E k \in 1..Len(remote.periods) :
          remote.periods[k].periodNumber = periodNumber
     /\ accounting_totals' = res.table
     /\ sync_logs' = totalsLog(sync_logs, agreement, year, periodNumber, res)
     /\ lastCall' = [fn |-> "syncAccountingPeriodTotals", threw |-> ~res.ok,
                     agreementNumber |-> numberOf(agreement), year |-> year,
                     period |-> periodNumber, recordCount |-> res.recordCount,
                     before |-> accounting_totals]
     /\ passes' = [passes EXCEPT !.calls = @ + 1]
     /\ UNCHANGED <<family, storeVars, today, agreements, apiVars,
                    invoice_lines, accounts, remote, pc>>

\* AccountingYearController.syncAccountingYearTotals
SyncAccountingYearTotals(i, year) ==
  LET agreement == agreements[i]
      res == syncTotals(accounting_totals, accounting_years,
                        forAgreement(agreement.agreement_grant_token),
                        numberOf(agreement), year, NULL)
  IN /\ pc.at = "idle"
     /\ family = "accounting"
     /\ passes.calls < MaxCalls
     /\ accounting_totals' = res.table
     /\ sync_logs' = totalsLog(sync_logs, agreement, year, NULL, res)
     /\ lastCall' = [fn |-> "syncAccountingYearTotals", threw |-> ~res.ok,
                     agreementNumber |-> numberOf(agreement), year |-> year,
                     period |-> NULL, recordCount |-> res.recordCount,
                     before |-> accounting_totals]
     /\ passes' = [passes EXCEPT !.calls = @ + 1]
     /\ UNCHANGED <<family, storeVars, today, agreements, apiVars,
                    invoice_lines, accounts, remote, pc>>

\* ------------------------------------------------ the totals reads
\* AgreementModel.getByAgreementNumber: the registry row of the number
getByAgreementNumber(registry, agreementNumber) ==
  SelectSeq(registry, LAMBDA a : a.agreement_number = agreementNumber)

\* AccountingTotalModel.getByPeriodYearAndAgreement and
\* AccountingTotalModel.getByYearAndAgreement (periodNumber NULL): the stored
\* totals of the period, or of the year level
totalsOf(table, periodNumber, year, agreementNumber) ==
  {t \in table : /\ t.period_number = periodValue(periodNumber)
                 /\ t.year = year /\ t.agreement_number = agreementNumber}

\* the background sync that was awaited: its error is the error of the read
lazyOutcomeAwaited(read, ok) ==
  [read EXCEPT !.background = IF ok THEN "done" ELSE "failed",
               !.threw = ~ok, !.error = IF ok THEN "" ELSE "sync"]

\* the read has returned before the sync it started ends, and the promise
\* of the sync has a catch that logs: the answer of the read stays as it is
lazyOutcome(read, ok) ==
  [read EXCEPT !.background = IF ok THEN "done" ELSE "failed"]

\* getAccountingTotalsByPeriod(periodNumber, year, agreementNumber), and
\* getAccountingTotalsByYear(year, agreementNumber) with periodNumber NULL:
\* not-found when the period (the year) is not stored; the stored totals
\* when there are some; else the sync is started, not awaited, and the
\* empty list is returned flagged syncing
getAccountingTotals(periodNumber, year, agreementNumber) ==
  LET exists == IF periodNumber = NULL
                THEN findByYearAndAgreement(accounting_years, year,
                                            agreementNumber) # {}
                ELSE \E p \in accounting_periods :
                       /\ p.period_number = periodNumber /\ p.year = year
                       /\ p.agreement_number = agreementNumber
      totals == totalsOf(accounting_totals, periodNumber, year, agreementNumber)
      found == getByAgreementNumber(agreements, agreementNumber)
      starts == exists /\ totals = {} /\ found # <<>>
      read == [fn |-> IF periodNumber = NULL THEN "getAccountingTotalsByYear"
                      ELSE "getAccountingTotalsByPeriod",
               exists |-> exists, known |-> found # <<>>, stored |-> totals,
               threw |-> ~exists,
               error |-> IF exists THEN "" ELSE "notFound",
               data |-> IF exists THEN totals ELSE {},
               syncing |-> starts,
               background |-> IF starts THEN "running" ELSE "none",
               totalsAtReturn |-> accounting_totals,
               logsAtReturn |-> Len(sync_logs)]
  IN /\ pc.at = "idle"
     /\ family = "accounting"
     /\ passes.calls < MaxCalls
     /\ lastCall' = read
     /\ pc' = IF starts
              THEN [NoSync EXCEPT !.at = "lazyTotals", !.mode = "background",
                                  !.agreement = found[1], !.year = year,
                                  !.period = periodNumber]
              ELSE pc
     /\ passes' = [passes EXCEPT !.calls = @ + 1]
     /\ UNCHANGED <<family, storeVars, today, regVars, apiVars, invoice_lines,
                    accounts, accounting_totals, remote>>

\* the sync a totals read has started runs to its end: it writes the totals
\* and its sync log; its error goes to the catch of the promise
BackgroundTotalsSync ==
  LET res == syncTotals(accounting_totals, accounting_years,
                        forAgreement(pc.agreement.agreement_grant_token),
                        numberOf(pc.agreement), pc.year, pc.period)
  IN /\ pc.at = "lazyTotals"
     /\ accounting_totals' = res.table
     /\ sync_logs' = totalsLog(sync_logs, pc.agreement, pc.year, pc.period, res)
     /\ lastCall' = lazyOutcome(lastCall, res.ok)
     /\ pc' = NoSync
     /\ UNCHANGED <<family, storeVars, today, agreements, apiVars,
                    invoice_lines, accounts, remote, passes>>

\* the remotes of the totals specification: one year, one or two periods,
\* one account with a total, and a listing of tenant "t2" that may fail
TotalsRemotes ==
  {[NoRemote EXCEPT !.failing = failing,
                    !.years = <<[year |-> 2024, fromDate |-> 1]>>,
                    !.periods = periods,
                    !.totals = <<[accountNumber |-> 1000,
                                  totalInBaseCurrency |-> total]>>] :
     failing \in Failing({<<"periods", 2024, NULL>>, <<"entries", 2024, 1>>,
                          <<"totals", 2024, 1>>}),
     periods \in {<<[periodNumber |-> 1, fromDate |-> 1]>>,
                  <<[periodNumber |-> 1, fromDate |-> 1],
                    [periodNumber |-> 2, fromDate |-> 2]>>},
     total \in {50}}

InitTotals ==
  /\ family = "accounting"
  /\ invoices = {}
  /\ accounting_years = {}
  /\ accounting_periods = {}
  /\ accounting_entries = {}
  /\ nextId = 1
  /\ clock = 0
  /\ today = 1
  /\ lastCall = NoCall
  /\ agreements = <<Agreement(1, 1, "t1", TRUE), Agreement(2, 2, "t2", TRUE)>>
  /\ sync_logs = <<>>
  /\ server = NoServer
  /\ pager = NoPager
  /\ invoice_lines = {}
  /\ accounts = {}
  /\ accounting_totals = {}
  /\ remote \in TotalsRemotes
  /\ pc = NoSync
  /\ passes = NoPasses

NextTotals ==
  \/ \E i \in 1..Len(agreements) : SyncByAgreementCall(i)
  \/ SyncAccountingYearsBegin
  \/ YearStep
  \/ PeriodsBegin
  \/ PeriodStep
  \/ SyncAccountingEntriesForPeriod
  \/ SyncAccountingTotalsForPeriod
  \/ SyncAccountingTotalsForYear
  \/ PeriodsEnd
  \/ \E i \in 1..Len(agreements), periodNumber \in PeriodNumbers :
       SyncAccountingPeriodTotals(i, 2024, periodNumber)
  \/ \E i \in 1..Len(agreements) : SyncAccountingYearTotals(i, 2024)
  \/ \E periodNumber \in PeriodNumbers \cup {NULL}, year \in {2024, 2025},
          agreementNumber \in AgreementNumbers :
       getAccountingTotals(periodNumber, year, agreementNumber)
  \/ BackgroundTotalsSync

SpecTotals == InitTotals /\ [][NextTotals]_vars

\* ------------------------------------------- transformInvoiceData as called
\* the transformInvoiceData of the first revision of the service: it takes
\* the invoice and the listing type and reads this.agreementNumber
transformInvoiceDataOfService(invoice, type, thisAgreementNumber) ==
  [customer_number |-> invoice.customerNumber,
   agreement_number |-> thisAgreementNumber,
   net_amount |-> invoice.netAmount,
   invoice_number |-> IF invoice.bookedInvoiceNumber # NULL
                      THEN invoice.bookedInvoiceNumber
                      ELSE invoice.draftInvoiceNumber,
   draft_invoice_number |-> IF type = "draft" THEN invoice.draftInvoiceNumber
                            ELSE NULL,
   payment_status |-> CASE type = "paid" -> "paid"
                        [] type = "overdue" -> "overdue"
                        [] OTHER -> "pending"]

\* the calls of transformInvoiceData on one argument list
MaxTransforms == 2

\* the argument list of the calls, the revision of the service called, and
\* the service object with its agreementNumber not yet initialised
TransformCalls ==
  {[fn |-> "none", revision |-> revision, invoice |-> invoice, type |-> type,
    agreementNumber |-> agreementNumber, thisAgreementNumber |-> NULL,
    calls |-> 0, row |-> <<>>, prevRow |-> <<>>] :
     revision \in {"current", "first"},
     invoice \in {i \in RemoteInvoices : i.customerNumber = 1},
     type \in InvoiceTypes,
     agreementNumber \in {1}}

\* InvoiceService.transformInvoiceData is called with the argument list
TransformInvoiceDataCall ==
  /\ lastCall.calls < MaxTransforms
  /\ lastCall' =
       [lastCall EXCEPT
          !.fn = "transformInvoiceData",
          !.calls = @ + 1,
          !.prevRow = lastCall.row,
          !.row = IF lastCall.revision = "current"
                  THEN transformInvoiceData(lastCall.invoice, lastCall.type,
                                            lastCall.agreementNumber, today)
                  ELSE transformInvoiceDataOfService(lastCall.invoice, lastCall.type,
                                                     lastCall.thisAgreementNumber)]
  /\ UNCHANGED <<restVars, pc>>

\* InvoiceService.initializeAgreementNumber, started by the constructor and
\* not awaited, has set this.agreementNumber
InitializeAgreementNumber ==
  /\ lastCall.revision = "first"
  /\ lastCall.thisAgreementNumber = NULL
  /\ lastCall' = [lastCall EXCEPT !.thisAgreementNumber = lastCall.agreementNumber]
  /\ UNCHANGED <<restVars, pc>>

InitTransform ==
  /\ family = "invoices"
  /\ invoices = {}
  /\ accounting_years = {}
  /\ accounting_periods = {}
  /\ accounting_entries = {}
  /\ nextId = 1
  /\ clock = 0
  /\ today = 1
  /\ lastCall \in TransformCalls
  /\ agreements = <<>>
  /\ sync_logs = <<>>
  /\ server = NoServer
  /\ pager = NoPager
  /\ invoice_lines = {}
  /\ accounts = {}
  /\ accounting_totals = {}
  /\ remote = NoRemote
  /\ pc = NoSync
  /\ passes = NoPasses

NextTransform ==
  \/ TransformInvoiceDataCall
  \/ InitializeAgreementNumber
  \/ Tick

SpecTransform == InitTransform /\ [][NextTransform]_vars

\* ------------------------------------------------ the agreement registry
\* the agreements one registry holds
MaxAgreements == 3

\* AgreementService.testAgreementConnection(agreementGrantToken): the client
\* built for the token asks GET /self; the call throws when the request
\* fails or when the answer carries no agreementNumber
testAgreementConnection(token) ==
  LET asked == forAgreement(token)
      info == getAgreementInfo(asked)
      number == IF fails(asked, "number", NULL, NULL) THEN NULL
                ELSE info.agreementNumber
  IN [ok |-> info.ok /\ number # NULL, asked |-> asked, agreementNumber |-> number]

\* AgreementModel.create(agreementData): the row the registry gains
agreementCreate(registry, agreementNumber, token) ==
  Append(registry, Agreement(Len(registry) + 1, agreementNumber, token, TRUE))

\* AgreementModel.update(id, agreementData) with a grant token in the data
agreementRetoken(registry, id, token) ==
  [registry EXCEPT ![id] = [@ EXCEPT !.agreement_grant_token = token]]

\* what a call of the registry leaves behind
registryCall(fn, token, checked, test, before) ==
  [fn |-> fn, token |-> token, checked |-> checked,
   validated |-> checked /\ test.ok, asked |-> IF checked THEN test.asked ELSE "",
   threw |-> checked /\ ~test.ok, before |-> before]

\* AgreementService.createAgreement(agreementData)
CreateAgreement(agreementNumber, token) ==
  LET test == testAgreementConnection(token)
  IN /\ Len(agreements) < MaxAgreements
     /\ agreements' = IF test.ok
                      THEN agreementCreate(agreements, agreementNumber, token)
                      ELSE agreements
     /\ lastCall' = registryCall("createAgreement", token, TRUE, test, agreements)
     /\ UNCHANGED <<family, storeVars, today, sync_logs, apiVars, syncVars>>

\* AgreementService.createAgreementWithVerification(agreementData): the
\* agreement number stored is the one the remote answered
CreateAgreementWithVerification(token) ==
  LET test == testAgreementConnection(token)
  IN /\ Len(agreements) < MaxAgreements
     /\ agreements' = IF test.ok
                      THEN agreementCreate(agreements, test.agreementNumber, token)
                      ELSE agreements
     /\ lastCall' = registryCall("createAgreementWithVerification", token, TRUE,
                                 test, agreements)
     /\ UNCHANGED <<family, storeVars, today, sync_logs, apiVars, syncVars>>

\* AgreementService.updateAgreement(id, agreementData): the token is tested
\* when the data carries one ("" is no token: nothing to test, none written)
UpdateAgreement(id, token) ==
  LET test == testAgreementConnection(token)
      checked == token # ""
  IN /\ id \in 1..Len(agreements)
     /\ agreements' = IF checked /\ test.ok
                      THEN agreementRetoken(agreements, id, token)
                      ELSE agreements
     /\ lastCall' = registryCall("updateAgreement", token, checked, test, agreements)
     /\ UNCHANGED <<family, storeVars, today, sync_logs, apiVars, syncVars>>

\* the remotes of the registry specification: GET /self of one tenant may
\* fail, or answer without an agreement number
RegistryRemotes ==
  {[NoRemote EXCEPT !.failing = failing] :
     failing \in {{}, {<<"t2", "self", NULL, NULL>>},
                  {<<"t3", "number", NULL, NULL>>}}}

InitRegistry ==
  /\ family = "invoices"
  /\ invoices = {}
  /\ accounting_years = {}
  /\ accounting_periods = {}
  /\ accounting_entries = {}
  /\ nextId = 1
  /\ clock = 0
  /\ today = 1
  /\ lastCall = NoCall
  /\ agreements = <<Agreement(1, 1, "t1", TRUE)>>
  /\ sync_logs = <<>>
  /\ server = NoServer
  /\ pager = NoPager
  /\ invoice_lines = {}
  /\ accounts = {}
  /\ accounting_totals = {}
  /\ remote \in RegistryRemotes
  /\ pc = NoSync
  /\ passes = NoPasses

NextRegistry ==
  \/ \E token \in Tokens \cup {""} : CreateAgreement(NULL, token)
  \/ \E token \in Tokens \cup {""} : CreateAgreementWithVerification(token)
  \/ \E id \in 1..MaxAgreements, token \in Tokens \cup {""} :
       UpdateAgreement(id, token)

SpecRegistry == InitRegistry /\ [][NextRegistry]_vars

\* ------------------------------------- the type-specific invoice syncs
\* the remotes of the specification of the type-specific syncs
TypeRemotes ==
  {[NoRemote EXCEPT !.failing = failing, !.drafts = drafts, !.booked = booked] :
     failing \in Failing({<<"self", NULL, NULL>>, <<"booked", NULL, NULL>>}),
     drafts \in {<<>>, <<RemoteInvoice(1, NULL, 1, UNDEF)>>},
     booked \in {<<>>, <<RemoteInvoice(NULL, 1, 1, 5)>>,
                 <<RemoteInvoice(NULL, 2, NULL, 5), RemoteInvoice(NULL, 1, 1, 5)>>}}

InitTypeSync ==
  /\ family = "invoices"
  /\ invoices = {}
  /\ accounting_years = {}
  /\ accounting_periods = {}
  /\ accounting_entries = {}
  /\ nextId = 1
  /\ clock = 0
  /\ today = 1
  /\ lastCall = NoCall
  /\ agreements \in SyncRegistries
  /\ sync_logs = <<>>
  /\ server = NoServer
  /\ pager = NoPager
  /\ invoice_lines = {}
  /\ accounts = {}
  /\ accounting_totals = {}
  /\ remote \in TypeRemotes
  /\ pc = NoSync
  /\ passes = NoPasses

NextTypeSync ==
  \/ SyncAllCall
  \/ \E type \in InvoiceTypes : SyncTypeCall(type)
  \/ SyncAgreementInvoices

SpecTypeSync == InitTypeSync /\ [][NextTypeSync]_vars

\* --------------------------------------------- sync runs served concurrently
\* the sync runs that may be in flight at once, and the runs started in all
MaxWriters == 2
MaxStarts == 3

\* the server with no sync run in flight; the handlers are async functions
\* and nothing in them waits for a run that is in flight
NoOverlap ==
  [at |-> "serving", mode |-> "overlap", runs |-> <<>>, ended |-> <<>>,
   started |-> 0]

\* a run that has reached the upsert of `row` in `table`, before the SELECT
runAt(kind, table, key, row, agreement, year, periodNumber) ==
  [kind |-> kind, table |-> table, key |-> key, row |-> row, at |-> "find",
   seen |-> {}, agreement |-> agreement, year |-> year, period |-> periodNumber]

\* the natural key of a total
totalKey(total) ==
  <<total.account_number, total.year, periodValue(total.period_number),
    total.agreement_number>>

\* the second query of AccountingYearModel.upsert, on what the SELECT had
\* returned when it was answered: the UPDATE of the row that SELECT found,
\* or the INSERT, which the primary key (year, agreement_number) refuses
\* when the table holds the key by now
yearStatement(seen, table, yearData) ==
  LET existing == findByYearAndAgreement(seen, yearData.year,
                                         yearData.agreement_number)
      held == findByYearAndAgreement(table, yearData.year,
                                     yearData.agreement_number)
  IN IF existing # {}
     THEN [ok |-> TRUE, error |-> "",
           table |-> {IF r \in held
                      THEN [r EXCEPT !.start_date = yearData.start_date]
                      ELSE r : r \in table}]
     ELSE IF held # {}
          THEN [ok |-> FALSE, error |-> "ER_DUP_ENTRY", table |-> table]
          ELSE [ok |-> TRUE, error |-> "", table |-> table \cup {yearData}]

\* a new run is served whatever runs are in flight
Serve(run) ==
  /\ family = "accounting"
  /\ pc.mode = "overlap"
  /\ Len(pc.runs) < MaxWriters
  /\ pc.started < MaxStarts
  /\ pc' = [pc EXCEPT !.runs = Append(@, run), !.started = @ + 1]
  /\ UNCHANGED <<restVars, lastCall>>

\* a sync run calls AccountingYearModel.upsert(yearData)
YearUpsertCalled(yearData) ==
  Serve(runAt("upsert", "accounting_years",
              <<yearData.year, yearData.agreement_number>>, yearData,
              NoAgreement, yearData.year, NULL))

\* the totals the run of syncAccountingTotalsForPeriod hands to batchUpsert
\* (the remote of this specification lists one total)
totalsRun(kind, agreement, year, periodNumber) ==
  LET total == transformAccountingTotalData(remoteTotals(periodNumber)[1], year,
                                            periodNumber, numberOf(agreement))
  IN runAt(kind, "accounting_totals", totalKey(total), total, agreement, year,
           periodNumber)

\* POST of the totals sync of a period: the handler calls
\* syncAccountingTotalsForPeriod at once
TotalsSyncRequested(i, year, periodNumber) ==
  Serve(totalsRun("request", agreements[i], year, periodNumber))

\* getAccountingTotalsByPeriod finds the period stored and no totals: it
\* starts syncAccountingTotalsForPeriod and returns without awaiting it
TotalsReadStartsSync(periodNumber, year, agreementNumber) ==
  LET found == getByAgreementNumber(agreements, agreementNumber)
  IN /\ \E p \in accounting_periods :
          /\ p.period_number = periodNumber /\ p.year = year
          /\ p.agreement_number = agreementNumber
     /\ totalsOf(accounting_totals, periodNumber, year, agreementNumber) = {}
     /\ found # <<>>
     /\ Serve(totalsRun("background", found[1], year, periodNumber))

\* the SELECT of the upsert of a run is answered
RunFind(k) ==
  /\ pc.mode = "overlap"
  /\ k \in 1..Len(pc.runs)
  /\ pc.runs[k].at = "find"
  /\ pc' = [pc EXCEPT !.runs[k].at = "write",
                      !.runs[k].seen = IF pc.runs[k].table = "accounting_years"
                                       THEN accounting_years
                                       ELSE accounting_totals]
  /\ UNCHANGED <<restVars, lastCall>>

\* the UPDATE or INSERT of the upsert of a run is answered and the run ends:
\* a totals run commits or rolls back its transaction and writes its sync
\* log; the error of a background run goes to the catch of its promise
RunWrite(k) ==
  /\ pc.mode = "overlap"
  /\ k \in 1..Len(pc.runs)
  /\ pc.runs[k].at = "write"
  /\ LET run == pc.runs[k]
         ofYears == run.table = "accounting_years"
         yr == yearStatement(run.seen, accounting_years, run.row)
         st == totalStatement(run.seen, accounting_totals, accounting_years, run.row)
         ok == IF ofYears THEN yr.ok ELSE st.ok
         error == IF ok THEN ""
                  ELSE IF ofYears THEN yr.error
                  ELSE IF findByYearAndAgreement(accounting_years, run.row.year,
                                                 run.row.agreement_number) = {}
                       THEN "ER_NO_REFERENCED_ROW"
                       ELSE "ER_DUP_ENTRY"
     IN /\ accounting_years' = IF ofYears THEN yr.table ELSE accounting_years
        /\ accounting_totals' = IF ofYears THEN accounting_totals ELSE st.view
        /\ sync_logs' = IF ofYears THEN sync_logs
                        ELSE totalsLog(sync_logs, run.agreement, run.year, run.period,
                                       [ok |-> ok,
                                        recordCount |-> IF ok THEN 1 ELSE 0])
        /\ pc' = [pc EXCEPT
                    !.runs = SubSeq(@, 1, k - 1) \o SubSeq(@, k + 1, Len(@)),
                    !.ended = Append(@, [kind |-> run.kind, table |-> run.table,
                                         key |-> run.key, threw |-> ~ok,
                                         error |-> error])]
        /\ UNCHANGED <<family, invVars, clock, accounting_periods,
                       accounting_entries, today, lastCall, agreements, apiVars,
                       invoice_lines, accounts, remote, passes>>

\* the remote of the concurrent runs: one year, one period, one total
OverlapRemote ==
  [NoRemote EXCEPT !.years = <<[year |-> 2024, fromDate |-> 1]>>,
                   !.periods = <<[periodNumber |-> 1, fromDate |-> 1]>>,
                   !.totals = <<[accountNumber |-> 1000,
                                 totalInBaseCurrency |-> 50]>>]

\* the accounting years a sync run can hand to upsert
OverlapYears ==
  {transformAccountingYearData(OverlapRemote.years[1], n) : n \in AgreementNumbers}

\* the database before the runs: empty, or with the year and the period of
\* agreement 1 stored by an earlier sync and no totals yet
InitOverlap ==
  /\ family = "accounting"
  /\ invoices = {}
  /\ \E synced \in BOOLEAN :
       /\ accounting_years =
            IF synced THEN {transformAccountingYearData(OverlapRemote.years[1], 1)}
            ELSE {}
       /\ accounting_periods =
            IF synced
            THEN {transformAccountingPeriodData(OverlapRemote.periods[1], 2024, 1)}
            ELSE {}
  /\ accounting_entries = {}
  /\ nextId = 1
  /\ clock = 0
  /\ today = 1
  /\ lastCall = NoCall
  /\ agreements = <<Agreement(1, 1, "t1", TRUE), Agreement(2, 2, "t2", TRUE)>>
  /\ sync_logs = <<>>
  /\ server = NoServer
  /\ pager = NoPager
  /\ invoice_lines = {}
  /\ accounts = {}
  /\ accounting_totals = {}
  /\ remote = OverlapRemote
  /\ pc = NoOverlap
  /\ passes = NoPasses

NextOverlap ==
  \/ \E yearData \in OverlapYears : YearUpsertCalled(yearData)
  \/ \E i \in 1..Len(agreements) : TotalsSyncRequested(i, 2024, 1)
  \/ \E agreementNumber \in AgreementNumbers :
       TotalsReadStartsSync(1, 2024, agreementNumber)
  \/ \E k \in 1..MaxWriters : RunFind(k)
  \/ \E k \in 1..MaxWriters : RunWrite(k)

SpecOverlap == InitOverlap /\ [][NextOverlap]_vars

\* ------------------------------------------------- the pool of connections
\* connectionLimit of the pool, the batchUpsert calls that run concurrently
\* (as many as the pool has connections), and the calls started in all
PoolSize == 2
MaxPoolCalls == 3

\* a batchUpsert call that is not running
NoTransaction ==
  [at |-> "idle", entries |-> <<>>, i |-> 0, batch |-> <<>>, seen |-> {},
   view |-> {}, holds |-> FALSE, acquired |-> FALSE, releases |-> 0,
   beginThrew |-> FALSE, callback |-> "none", commitTried |-> FALSE,
   commitThrew |-> FALSE, committed |-> FALSE, rollbackTried |-> FALSE,
   rolledBack |-> FALSE,
   threw |-> FALSE, ended |-> FALSE]

\* the server with its pool and no call running
NoPool ==
  [at |-> "serving", mode |-> "pool",
   calls |-> [k \in 1..PoolSize |-> NoTransaction], started |-> 0]

\* the connections of the pool that no caller holds
freeConnections(calls) ==
  PoolSize - Cardinality({k \in 1..PoolSize : calls[k].holds})

\* db.transaction is entered for the chunk that starts at index i
transactionOf(entries, i) ==
  [NoTransaction EXCEPT !.at = "getConnection", !.entries = entries, !.i = i,
                        !.batch = slice(entries, i, i + batchSize)]

\* a `finally` that releases the connection only when nothing was thrown
releaseOnSuccess(tx) ==
  IF tx.threw
  THEN [tx EXCEPT !.ended = TRUE]
  ELSE [tx EXCEPT !.holds = FALSE, !.releases = @ + 1, !.ended = TRUE]

\* Database.transaction, lines 61-63: connection.release() in `finally`
release(tx) ==
  [tx EXCEPT !.holds = FALSE, !.releases = @ + 1, !.ended = TRUE]

\* the step of call k
PoolStep(k, tx) ==
  /\ pc' = [pc EXCEPT !.calls[k] = tx]
  /\ UNCHANGED <<family, invVars, clock, accounting_years, accounting_periods,
                 today, lastCall, regVars, apiVars, invoice_lines, accounts,
                 accounting_totals, remote, passes>>

\* the call k is at `at` in a transaction
PoolAt(k, at) ==
  /\ pc.mode = "pool"
  /\ pc.calls[k].at = at
  /\ ~pc.calls[k].ended

\* AccountingEntryModel.batchUpsert(entries) is called; an empty list
\* returns at once
BatchUpsertCalled(k, entries) ==
  /\ family = "accounting"
  /\ pc.mode = "pool"
  /\ pc.calls[k].at \in {"idle", "returned", "thrown"}
  /\ pc.started < MaxPoolCalls
  /\ pc' = [pc EXCEPT !.started = @ + 1,
                      !.calls[k] = IF entries = <<>>
                                   THEN [NoTransaction EXCEPT !.at = "returned"]
                                   ELSE transactionOf(entries, 0)]
  /\ UNCHANGED <<restVars, lastCall>>

\* Database.transaction, line 52: the pool hands out a connection when it
\* has a free one (the caller waits otherwise), or getConnection throws
GetConnection(k) ==
  /\ PoolAt(k, "getConnection")
  /\ \E ok \in BOOLEAN :
       /\ ok => freeConnections(pc.calls) > 0
       /\ PoolStep(k, IF ok
                      THEN [pc.calls[k] EXCEPT !.at = "begin", !.holds = TRUE,
                                               !.acquired = TRUE,
                                               !.view = accounting_entries]
                      ELSE [pc.calls[k] EXCEPT !.at = "thrown", !.threw = TRUE,
                                               !.ended = TRUE])
  /\ UNCHANGED accounting_entries

\* Database.transaction, line 54
BeginTransaction(k) ==
  /\ PoolAt(k, "begin")
  /\ \E ok \in BOOLEAN :
       PoolStep(k, IF ok THEN [pc.calls[k] EXCEPT !.at = "find"]
                   ELSE [pc.calls[k] EXCEPT !.at = "rollback",
                                            !.beginThrew = TRUE, !.threw = TRUE])
  /\ UNCHANGED accounting_entries

\* the callback of batchUpsert, lines 113-117: the lookup goes through
\* db.query, that is pool.execute, which takes a connection of the pool for
\* the query (and waits when there is none) and sees the committed rows
Find(k) ==
  /\ PoolAt(k, "find")
  /\ freeConnections(pc.calls) > 0
  /\ PoolStep(k, [pc.calls[k] EXCEPT !.at = "write",
                                     !.seen = accounting_entries])
  /\ UNCHANGED accounting_entries

\* the callback of batchUpsert, lines 119-181: UPDATE or INSERT on the
\* connection of the transaction; after the last entry the callback returns
Write(k) ==
  /\ PoolAt(k, "write")
  /\ LET tx == pc.calls[k]
         st == entryStatement(tx.seen, tx.view, accounting_periods, Head(tx.batch))
     IN PoolStep(k, IF ~st.ok
                    THEN [tx EXCEPT !.at = "rollback", !.callback = "threw",
                                    !.threw = TRUE]
                    ELSE IF Tail(tx.batch) = <<>>
                    THEN [tx EXCEPT !.at = "commit", !.callback = "returned",
                                    !.view = st.view, !.batch = <<>>]
                    ELSE [tx EXCEPT !.at = "find", !.view = st.view,
                                    !.batch = Tail(@)])
  /\ UNCHANGED accounting_entries

\* the rows of the agreements of the entries
ownRows(table, entries) ==
  {r \in table : \E n \in 1..Len(entries) :
                   r.agreement_number = entries[n].agreement_number}

\* Database.transaction, line 56: the commit makes the rows of the
\* transaction visible, or throws
Commit(k) ==
  /\ PoolAt(k, "commit")
  /\ \E ok \in BOOLEAN :
       LET tx == pc.calls[k]
       IN /\ accounting_entries' =
               IF ok
               THEN (accounting_entries \ ownRows(accounting_entries, tx.entries))
                    \cup ownRows(tx.view, tx.entries)
               ELSE accounting_entries
          /\ PoolStep(k, IF ok
                         THEN [tx EXCEPT !.at = "release", !.commitTried = TRUE,
                                         !.committed = TRUE]
                         ELSE [tx EXCEPT !.at = "rollback", !.commitTried = TRUE,
                                         !.commitThrew = TRUE, !.threw = TRUE])

\* Database.transaction, lines 58-60: the rollback, which may throw too
Rollback(k) ==
  /\ PoolAt(k, "rollback")
  /\ \E ok \in BOOLEAN :
       PoolStep(k, [pc.calls[k] EXCEPT !.at = "release", !.rollbackTried = TRUE,
                                       !.rolledBack = ok])
  /\ UNCHANGED accounting_entries

\* Database.transaction, lines 61-63, and the end of the transaction: the
\* error is thrown to the caller of batchUpsert, or the result returned
Release(k) ==
  /\ PoolAt(k, "release")
  /\ LET tx == release(pc.calls[k])
     IN PoolStep(k, [tx EXCEPT !.at = IF tx.threw THEN "thrown" ELSE "returned"])
  /\ UNCHANGED accounting_entries

\* batchUpsert, lines 107-109: the loop goes to the next chunk
NextChunk(k) ==
  /\ pc.mode = "pool"
  /\ pc.calls[k].at = "returned"
  /\ pc.calls[k].ended
  /\ pc.calls[k].i + batchSize < Len(pc.calls[k].entries)
  /\ PoolStep(k, transactionOf(pc.calls[k].entries, pc.calls[k].i + batchSize))
  /\ UNCHANGED accounting_entries

\* an entry of agreement k
poolEntry(entryNumber, k, amount) ==
  [entry_number |-> entryNumber, year |-> 2024, period_number |-> 1,
   agreement_number |-> k, amount |-> amount]

\* the lists call k hands to batchUpsert: nothing, entries of its own
\* agreement in one chunk or in two, and a chunk that names one entry twice
PoolBatches(k) ==
  {<<>>, <<poolEntry(1, k, 10)>>,
   <<poolEntry(1, k, 10), poolEntry(1, k, 20)>>,
   <<poolEntry(1, k, 10), poolEntry(2, k, 10), poolEntry(3, k, 10)>>}

InitPool ==
  /\ family = "accounting"
  /\ invoices = {}
  /\ accounting_years = {transformAccountingYearData([year |-> 2024, fromDate |-> 1], k) :
                           k \in 1..PoolSize}
  /\ accounting_periods =
       {transformAccountingPeriodData([periodNumber |-> 1, fromDate |-> 1], 2024, k) :
          k \in 1..PoolSize}
  /\ accounting_entries = {}
  /\ nextId = 1
  /\ clock = 0
  /\ today = 1
  /\ lastCall = NoCall
  /\ agreements = <<Agreement(1, 1, "t1", TRUE), Agreement(2, 2, "t2", TRUE)>>
  /\ sync_logs = <<>>
  /\ server = NoServer
  /\ pager = NoPager
  /\ invoice_lines = {}
  /\ accounts = {}
  /\ accounting_totals = {}
  /\ remote = NoRemote
  /\ pc = NoPool
  /\ passes = NoPasses

NextPool ==
  \/ \E k \in 1..PoolSize : \E entries \in PoolBatches(k) :
       BatchUpsertCalled(k, entries)
  \/ \E k \in 1..PoolSize : GetConnection(k)
  \/ \E k \in 1..PoolSize : BeginTransaction(k)
  \/ \E k \in 1..PoolSize : Find(k)
  \/ \E k \in 1..PoolSize : Write(k)
  \/ \E k \in 1..PoolSize : Commit(k)
  \/ \E k \in 1..PoolSize : Rollback(k)
  \/ \E k \in 1..PoolSize : Release(k)
  \/ \E k \in 1..PoolSize : NextChunk(k)

SpecPool == InitPool /\ [][NextPool]_vars

\* ------------------------------------------- the invoice store with create
\* InvoiceModel.create(invoiceData): the INSERT of the row under a new id,
\* with `|| null` on invoice_number, draft_invoice_number, agreement_number
create(table, id, now, invoiceData) ==
  table \cup {[id |-> id,
               invoice_number |-> invoiceData.invoice_number,
               draft_invoice_number |-> invoiceData.draft_invoice_number,
               customer_number |-> invoiceData.customer_number,
               agreement_number |-> invoiceData.agreement_number,
               net_amount |-> invoiceData.net_amount,
               payment_status |-> orPending(invoiceData.payment_status),
               updated_at |-> now]}

\* the invoices handed to InvoiceModel.create: a draft not yet booked, and
\* an invoice stored with both its numbers
CreatedInvoices ==
  [invoice_number : {NULL, 2}, draft_invoice_number : {1},
   customer_number : {1}, agreement_number : {1}, net_amount : {20},
   payment_status : {"pending"}]

\* InvoiceModel.create(invoiceData)
Create(invoiceData) ==
  /\ family = "invoices"
  /\ clock < MaxClock
  /\ invoices' = create(invoices, nextId, clock + 1, invoiceData)
  /\ nextId' = nextId + 1
  /\ clock' = clock + 1
  /\ lastCall' = [fn |-> "create", row |-> invoiceData, threw |-> FALSE]
  /\ UNCHANGED acctVars
  /\ UNCHANGED <<family, today, regVars, apiVars, syncVars>>

\* --------------------------------------- a listing synced page by page
\* a getPaginated that returns what it has collected when a page fails
getPaginatedResultPartial(p) ==
  [threw |-> FALSE, results |-> p.results]

\* getPaginated, lines 86-91: `return results` after the loop; the catch
\* block logs and rethrows, and the collected results are dropped
getPaginatedResult(p) ==
  [threw |-> p.status = "threw",
   results |-> IF p.status = "threw" THEN <<>> ELSE p.results]

\* the booked invoices of the listing: an item n of a page is the invoice
\* with bookedInvoiceNumber n of customer 1
fetchedInvoices(results) ==
  [n \in 1..Len(results) |-> RemoteInvoice(NULL, results[n], 1, 5)]

\* syncAgreementInvoices, lines 182-266, for the booked listing of the
\* agreement of token "t1": when getPaginated has returned, the invoices
\* are transformed and upserted and the sync of the type is logged; when it
\* has thrown, the catch block of the type logs the error
SyncFetchedType ==
  LET res == getPaginatedResult(pager)
      r == syncInvoicesOfType(storeOf, fetchedInvoices(res.results), "booked",
                              "t1", selfNumber("t1"), today)
      failed == res.threw \/ r.threw
  IN /\ family = "invoices"
     /\ pager.status \in {"returned", "threw"}
     /\ invoices' = IF res.threw THEN invoices ELSE r.invoices
     /\ nextId' = IF res.threw THEN nextId ELSE r.nextId
     /\ clock' = IF res.threw THEN clock ELSE r.clock
     /\ invoice_lines' = IF res.threw THEN invoice_lines ELSE r.invoice_lines
     /\ sync_logs' = recordSyncLog(sync_logs, invoiceEntity("booked"), "sync",
                                   IF failed THEN "error" ELSE "success",
                                   IF failed THEN 0 ELSE r.recordCount, logsUp)
     /\ lastCall' = [fn |-> "syncType", threw |-> failed, fetched |-> res.results,
                     count |-> IF failed THEN 0 ELSE r.recordCount]
     /\ pager' = [pager EXCEPT !.status = "synced"]
     /\ UNCHANGED <<family, acctVars, today, agreements, server, accounts,
                    accounting_totals, remote, pc, passes>>

InitPagedSync ==
  /\ InitPage
  /\ server.failAt \in {0, 2}

NextPagedSync ==
  \/ GetPaginatedCall
  \/ GetPaginatedStep
  \/ SyncFetchedType

SpecPagedSync == InitPagedSync /\ [][NextPagedSync]_vars

\* --------------------------------------------- the cached accounting reads
\* the reads started in one run
MaxReads == 3

\* the cache keys of agreement 1: its years, and the periods of 2024
CacheKeys == {"accounting_1_years", "accounting_1_2024_periods"}

\* key.includes(pattern), for the patterns the sync clears
keyIncludes(key, pattern) ==
  \/ pattern = "accounting_1"
  \/ pattern = "accounting_1_2024" /\ key = "accounting_1_2024_periods"

\* cache.clear(pattern); an entry is <<>> when absent, <<value>> when set
cacheClear(data, pattern) ==
  [key \in CacheKeys |-> IF keyIncludes(key, pattern) THEN <<>> ELSE data[key]]

\* cache.set(key, value)
cacheSet(data, key, value) == [data EXCEPT ![key] = <<value>>]

\* the service with an empty cache, no sync and no read running
NoCache ==
  [at |-> "serving", mode |-> "cache",
   data |-> [key \in CacheKeys |-> <<>>],
   sync |-> [at |-> "idle", years |-> <<>>, periods |-> <<>>, year |-> NULL,
             yearCount |-> 0, periodCount |-> 0],
   read |-> [at |-> "idle", key |-> "", rows |-> {}, afterSync |-> FALSE],
   reads |-> 0]

\* AccountingYearModel.getByAgreement / AccountingPeriodModel.getByYearAndAgreement:
\* the rows the SELECT of the read of `key` returns
rowsOf(key) ==
  IF key = "accounting_1_years"
  THEN {r \in accounting_years : r.agreement_number = 1}
  ELSE {r \in accounting_periods : r.year = 2024 /\ r.agreement_number = 1}

\* a step of the service that writes no table
CacheStep(next) ==
  /\ pc' = next
  /\ UNCHANGED <<restVars, lastCall>>

\* syncAccountingYearsForAgreement, lines 111-121: GET /self, the listing of
\* the years, then cache.clear of the agreement's keys, before any upsert
CachedSyncBegin ==
  /\ family = "accounting"
  /\ pc.mode = "cache"
  /\ pc.sync.at = "idle"
  /\ CacheStep([pc EXCEPT !.data = cacheClear(@, "accounting_1"),
                          !.sync.at = "year", !.sync.years = remote.years])

\* syncAccountingYearsForAgreement, lines 123-138: the upsert of the next
\* year, or the sync log and the return after the last year
CachedYearStep ==
  /\ pc.mode = "cache"
  /\ pc.sync.at = "year"
  /\ IF pc.sync.years = <<>>
     THEN /\ sync_logs' = recordSyncLog(sync_logs, <<"accounting_years", 1>>, "sync",
                                        "success", pc.sync.yearCount, logsUp)
          /\ pc' = [pc EXCEPT !.sync.at = "done"]
          /\ UNCHANGED accounting_years
     ELSE /\ accounting_years' =
               yearUpsert(accounting_years,
                          transformAccountingYearData(Head(pc.sync.years), 1)).table
          /\ pc' = [pc EXCEPT !.sync.at = "periods",
                              !.sync.year = Head(pc.sync.years).year,
                              !.sync.years = Tail(@),
                              !.sync.yearCount = @ + 1]
          /\ UNCHANGED sync_logs
  /\ UNCHANGED <<family, invVars, clock, accounting_periods, accounting_entries,
                 today, lastCall, agreements, apiVars, invoice_lines, accounts,
                 accounting_totals, remote, passes>>

\* syncAccountingPeriodsForYear, lines 169-177: GET /self, the listing of
\* the periods, then cache.clear of the year's keys
CachedPeriodsBegin ==
  /\ pc.mode = "cache"
  /\ pc.sync.at = "periods"
  /\ CacheStep([pc EXCEPT !.data = cacheClear(@, "accounting_1_2024"),
                          !.sync.at = "period", !.sync.periods = remote.periods,
                          !.sync.periodCount = 0])

\* syncAccountingPeriodsForYear, lines 179-194: the upsert of the next
\* period with the sync of the totals of the year, or the sync log and the
\* return into the year loop
CachedPeriodStep ==
  /\ pc.mode = "cache"
  /\ pc.sync.at = "period"
  /\ IF pc.sync.periods = <<>>
     THEN /\ sync_logs' = recordSyncLog(sync_logs,
                                        <<"accounting_periods", pc.sync.year, 1>>,
                                        "sync", "success", pc.sync.periodCount, logsUp)
          /\ pc' = [pc EXCEPT !.sync.at = "year"]
          /\ UNCHANGED <<accounting_periods, accounting_totals>>
     ELSE LET res == syncTotals(accounting_totals, accounting_years, "t1", 1,
                                pc.sync.year, NULL)
          IN /\ accounting_periods' =
                  periodUpsert(accounting_periods, accounting_years,
                               transformAccountingPeriodData(Head(pc.sync.periods),
                                                             pc.sync.year, 1)).table
             /\ accounting_totals' = res.table
             /\ sync_logs' = totalsLog(sync_logs, agreements[1], pc.sync.year, NULL, res)
             /\ pc' = [pc EXCEPT !.sync.periods = Tail(@),
                                 !.sync.periodCount = @ + 1]
  /\ UNCHANGED <<family, invVars, clock, accounting_years, accounting_entries,
                 today, lastCall, agreements, apiVars, invoice_lines, accounts,
                 remote, passes>>

\* the answer of a cached read
readAnswer(key, rows, hit, afterSync) ==
  [fn |-> IF key = "accounting_1_years" THEN "getAccountingYearsByAgreement"
          ELSE "getAccountingPeriodsByYear",
   threw |-> FALSE, data |-> rows, hit |-> hit, afterSync |-> afterSync]

\* getAccountingYearsByAgreement(1) / getAccountingPeriodsByYear(2024, 1),
\* up to the await: a cached value (a list, also an empty one, is truthy)
\* is returned; else the SELECT is sent
CachedRead(key) ==
  /\ family = "accounting"
  /\ pc.mode = "cache"
  /\ pc.read.at = "idle"
  /\ pc.reads < MaxReads
  /\ IF pc.data[key] # <<>>
     THEN /\ lastCall' = readAnswer(key, pc.data[key][1], TRUE, pc.sync.at = "done")
          /\ pc' = [pc EXCEPT !.reads = @ + 1]
     ELSE /\ pc' = [pc EXCEPT !.reads = @ + 1,
                              !.read = [at |-> "query", key |-> key, rows |-> {},
                                        afterSync |-> pc.sync.at = "done"]]
          /\ UNCHANGED lastCall
  /\ UNCHANGED restVars

\* the database answers the SELECT of the read
CachedReadQuery ==
  /\ pc.mode = "cache"
  /\ pc.read.at = "query"
  /\ CacheStep([pc EXCEPT !.read.at = "set", !.read.rows = rowsOf(pc.read.key)])

\* the read goes on after its await: cache.set(cacheKey, rows) and return
CachedReadReturn ==
  /\ pc.mode = "cache"
  /\ pc.read.at = "set"
  /\ lastCall' = readAnswer(pc.read.key, pc.read.rows, FALSE, pc.read.afterSync)
  /\ pc' = [pc EXCEPT !.data = cacheSet(@, pc.read.key, pc.read.rows),
                      !.read = NoCache.read]
  /\ UNCHANGED restVars

\* the remote of agreement 1: one year with one or two periods
CacheRemotes ==
  {[NoRemote EXCEPT !.years = <<[year |-> 2024, fromDate |-> 1]>>,
                    !.periods = periods,
                    !.totals = <<[accountNumber |-> 1000,
                                  totalInBaseCurrency |-> 50]>>] :
     periods \in {<<[periodNumber |-> 1, fromDate |-> 1]>>,
                  <<[periodNumber |-> 1, fromDate |-> 1],
                    [periodNumber |-> 2, fromDate |-> 2]>>}}

\* the database before the sync: empty, or with the year as an earlier
\* sync stored it, its start date since changed at the remote
InitCache ==
  /\ family = "accounting"
  /\ invoices = {}
  /\ accounting_years \in {{}, {[year |-> 2024, agreement_number |-> 1,
                                 start_date |-> 2]}}
  /\ accounting_periods = {}
  /\ accounting_entries = {}
  /\ nextId = 1
  /\ clock = 0
  /\ today = 1
  /\ lastCall = NoCall
  /\ agreements = <<Agreement(1, 1, "t1", TRUE)>>
  /\ sync_logs = <<>>
  /\ server = NoServer
  /\ pager = NoPager
  /\ invoice_lines = {}
  /\ accounts = {}
  /\ accounting_totals = {}
  /\ remote \in CacheRemotes
  /\ pc = NoCache
  /\ passes = NoPasses

NextCache ==
  \/ CachedSyncBegin
  \/ CachedYearStep
  \/ CachedPeriodsBegin
  \/ CachedPeriodStep
  \/ \E key \in CacheKeys : CachedRead(key)
  \/ CachedReadQuery
  \/ CachedReadReturn

SpecCache == InitCache /\ [][NextCache]_vars

\* --------------------------- the lines of an invoice saved in a transaction
\* the DELETE of saveInvoiceLines on the invoice_lines table
deletedLines(table, invoiceNumber, agreementNumber, customerNumber) ==
  {r \in table : ~(/\ invoiceNumber # NULL /\ agreementNumber # NULL
                   /\ customerNumber # NULL
                   /\ r.invoice_id = invoiceNumber
                   /\ r.agreement_number = agreementNumber
                   /\ r.customer_number = customerNumber)}

\* the callback saveInvoiceLines hands to db.transaction, on the
\* transaction's connection: the DELETE, then one INSERT per line until the
\* database refuses one (failAt is the position of that line, 0 for none)
linesCallback(table, invoiceNumber, agreementNumber, customerNumber, lines, failAt) ==
  LET done == IF failAt = 0 THEN lines ELSE SubSeq(lines, 1, failAt - 1)
  IN [threw |-> failAt # 0,
      view |-> deletedLines(table, invoiceNumber, agreementNumber, customerNumber)
                 \cup insertedLines(table, invoiceNumber, agreementNumber,
                                    customerNumber, done)]

\* a save whose statements are committed one by one: a refused INSERT
\* leaves the DELETE and the earlier INSERTs in the table
saveInvoiceLinesAutocommit(table, invoiceNumber, agreementNumber, customerNumber, lines, failAt) ==
  IF lines = <<>>
  THEN [threw |-> FALSE, table |-> table]
  ELSE LET r == linesCallback(table, invoiceNumber, agreementNumber,
                              customerNumber, lines, failAt)
       IN [threw |-> r.threw, table |-> r.view]

\* InvoiceModel.saveInvoiceLines with the database able to refuse a line:
\* Database.transaction commits the callback's statements when it returns
\* and rolls them back when it throws; the catch block hands the error on
saveInvoiceLinesOutcome(table, invoiceNumber, agreementNumber, customerNumber, lines, failAt) ==
  IF lines = <<>>
  THEN [threw |-> FALSE, table |-> table]
  ELSE LET r == linesCallback(table, invoiceNumber, agreementNumber,
                              customerNumber, lines, failAt)
       IN [threw |-> r.threw, table |-> IF r.threw THEN table ELSE r.view]

\* a call of saveInvoiceLines during which the database refuses the line at
\* failAt, if any
SaveInvoiceLinesRefused(invoiceNumber, agreementNumber, customerNumber, lineNumbers, failAt) ==
  LET lines == transformInvoiceLines([customerNumber |-> customerNumber,
                                      lines |-> lineNumbers],
                                     invoiceNumber, agreementNumber)
      n == IF lastCall.fn = "saveInvoiceLines" THEN lastCall.n ELSE 0
      r == saveInvoiceLinesOutcome(invoice_lines, invoiceNumber, agreementNumber,
                                   customerNumber, lines, failAt)
  IN /\ family = "lines"
     /\ n < MaxSaves
     /\ failAt <= Len(lines)
     /\ invoice_lines' = r.table
     /\ lastCall' = [fn |-> "saveInvoiceLines", invoiceNumber |-> invoiceNumber,
                     agreementNumber |-> agreementNumber,
                     customerNumber |-> customerNumber, lines |-> lines,
                     failAt |-> failAt, threw |-> r.threw,
                     before |-> invoice_lines, n |-> n + 1]
     /\ UNCHANGED <<family, storeVars, today, regVars, apiVars, accounts,
                    accounting_totals, remote, pc, passes>>

Init ==
  /\ family \in Families
  /\ invoices = {}
  /\ accounting_years = {}
  /\ accounting_periods = {}
  /\ accounting_entries = {}
  /\ nextId = 1
  /\ clock = 0
  /\ today = 1
  /\ lastCall = NoCall
  /\ agreements = <<Agreement(1, 1, "t1", TRUE), Agreement(2, 2, "t2", TRUE)>>
  /\ sync_logs = <<>>
  /\ server = NoServer
  /\ pager = NoPager
  /\ invoice_lines = {}
  /\ accounts = {}
  /\ accounting_totals = {}
  /\ remote = NoRemote
  /\ pc = NoSync
  /\ passes = NoPasses

Next ==
  \/ SmartUpsertCall
  \/ Tick
  \/ \E yearData \in YearRows : YearUpsert(yearData)
  \/ \E periodData \in PeriodRows : PeriodUpsert(periodData)
  \/ \E entries \in EntryBatches : EntryBatchUpsert(entries)
  \/ \E invoiceNumber \in {1, 2}, lineNumbers \in LineLists :
       SaveInvoiceLines(invoiceNumber, 1, 1, lineNumbers)

Spec == Init /\ [][Next]_vars

\* ------------------------------- the invoice store with its cleanup pass
InitInvoices == Init /\ family = "invoices"

NextInvoices ==
  \/ SmartUpsertCall
  \/ CleanupDuplicateInvoices

SpecInvoices == InitInvoices /\ [][NextInvoices]_vars

\* the invoice store written by smartUpsert and by create
NextStore ==
  \/ SmartUpsertCall
  \/ \E invoiceData \in CreatedInvoices : Create(invoiceData)
  \/ Tick

SpecStore == InitInvoices /\ [][NextStore]_vars

\* ---------------------------------------------- the cleanup specification
\* the rows an invoices table may hold after any history of the store
StoredInvoices ==
  [invoice_number : {1, 2}, draft_invoice_number : {NULL},
   customer_number : CustomerNumbers, agreement_number : AgreementNumbers,
   net_amount : {10}, payment_status : {"pending"}, updated_at : {1, 2}]

withId(row, id) == row @@ [id |-> id]

Registries ==
  {<<Agreement(1, 1, "t1", TRUE), Agreement(2, 2, "t2", TRUE)>>,
   <<Agreement(1, 1, "t1", TRUE), Agreement(2, 2, "t2", FALSE)>>,
   <<Agreement(1, 1, "t1", TRUE), Agreement(2, 1, "t1", TRUE)>>,
   <<Agreement(1, NULL, "t1", TRUE), Agreement(2, 2, "t2", TRUE)>>}

InitCleanup ==
  /\ family = "invoices"
  /\ \E n \in 0..MaxRows : \E rows \in [1..n -> StoredInvoices] :
       /\ invoices = {withId(rows[i], i) : i \in 1..n}
       /\ nextId = n + 1
  /\ accounting_years = {}
  /\ accounting_periods = {}
  /\ accounting_entries = {}
  /\ clock = 2
  /\ today = 1
  /\ lastCall = NoCall
  /\ agreements \in Registries
  /\ sync_logs = <<>>
  /\ server = NoServer
  /\ pager = NoPager
  /\ invoice_lines = {}
  /\ accounts = {}
  /\ accounting_totals = {}
  /\ remote = NoRemote
  /\ pc = NoSync
  /\ passes = NoPasses

NextCleanup ==
  \/ CleanupDuplicateInvoices
  \/ CleanupDuplicateInvoicesAllNumbers

SpecCleanup == InitCleanup /\ [][NextCleanup]_vars

\* the remotes of a family, with a database that takes the rows of sync_logs
\* or, for the remotes with the shorter listings, refuses them
SyncRemotes(fam) ==
  Remotes(fam)
  \cup {[r EXCEPT !.logsDown = TRUE] :
          r \in {x \in Remotes(fam) : /\ Len(x.years) <= 1 /\ Len(x.periods) <= 1
                                      /\ x.lines = <<>> /\ Len(x.booked) <= 1}}

\* the store is empty, the registry is filled, the remote is fixed
InitSync ==
  /\ family \in SyncFamilies
  /\ invoices = {}
  /\ accounting_years = {}
  /\ accounting_periods = {}
  /\ accounting_entries = {}
  /\ nextId = 1
  /\ clock = 0
  /\ today = 1
  /\ lastCall = NoCall
  /\ agreements \in SyncRegistries
  /\ sync_logs = <<>>
  /\ server = NoServer
  /\ pager = NoPager
  /\ invoice_lines = {}
  /\ accounts = {}
  /\ accounting_totals = {}
  /\ remote \in SyncRemotes(family)
  /\ pc = NoSync
  /\ passes = NoPasses

NextSync ==
  \/ SyncAllCall
  \/ \E i \in 1..Len(agreements) : SyncByAgreementCall(i)
  \/ SyncAgreementInvoices
  \/ SyncAccountsForAgreement
  \/ SyncAccountingYearsBegin
  \/ YearStep
  \/ PeriodsBegin
  \/ PeriodStep
  \/ SyncAccountingEntriesForPeriod
  \/ SyncAccountingTotalsForPeriod
  \/ SyncAccountingTotalsForYear
  \/ PeriodsEnd
  \/ Tick

SpecSync == InitSync /\ [][NextSync]_vars

\* -------------------------------------------------------------------- C1
\* C1: after every smartUpsert on a stored invoice the stored payment_status
\* is the higher-priority one of the previously stored status and the
\* incoming status (overdue 3 > paid 2 > partial 1 > pending 0); the stored
\* status never moves to a lower priority.
C1_StatusPrecedence ==
  (/\ lastCall.fn = "smartUpsert" /\ ~lastCall.threw /\ lastCall.updated = 1
   /\ lastCall.row.payment_status \in Statuses
   /\ lastCall.before \subseteq Statuses) =>
    \A r \in invoices :
      (/\ r.invoice_number = lastCall.row.invoice_number
       /\ r.customer_number = lastCall.row.customer_number
       /\ r.agreement_number = lastCall.row.agreement_number) =>
        \A s \in lastCall.before :
          /\ statusPriority(r.payment_status) >= statusPriority(s)
          /\ r.payment_status =
               IF shouldUpdateStatus(s, lastCall.row.payment_status)
               THEN lastCall.row.payment_status ELSE s

\* -------------------------------------------------------------------- C2
\* the stored rows of the natural key of the row of the last call
lastCallRows ==
  CASE lastCall.fn = "smartUpsert" ->
         findByInvoiceAndAgreementNumber(invoices, lastCall.row.invoice_number,
            lastCall.row.customer_number, lastCall.row.agreement_number)
    [] lastCall.fn = "yearUpsert" ->
         findByYearAndAgreement(accounting_years, lastCall.row.year,
                                lastCall.row.agreement_number)
    [] lastCall.fn = "batchUpsert" ->
         findByEntryNumberYearAndAgreement(accounting_entries,
            lastCall.row[1].entry_number, lastCall.row[1].year,
            lastCall.row[1].agreement_number)
    [] OTHER -> {}

\* the stored row carries the fields of the row R of the last call
storedEquals(r) ==
  CASE lastCall.fn = "smartUpsert" ->
         /\ r.invoice_number = lastCall.row.invoice_number
         /\ r.draft_invoice_number = lastCall.row.draft_invoice_number
         /\ r.customer_number = lastCall.row.customer_number
         /\ r.agreement_number = lastCall.row.agreement_number
         /\ r.net_amount = lastCall.row.net_amount
         /\ r.payment_status = lastCall.row.payment_status
    [] lastCall.fn = "yearUpsert" -> r = lastCall.row
    [] lastCall.fn = "batchUpsert" -> r = lastCall.row[1]
    [] OTHER -> FALSE

\* the last call repeated the call before it with the same single row R
secondUpsertOfR ==
  /\ lastCall.fn \in {"smartUpsert", "yearUpsert", "batchUpsert"}
  /\ lastCall.repeat
  /\ ~lastCall.threw
  /\ lastCall.fn = "batchUpsert" => Len(lastCall.row) = 1

\* C2: upsert(R); upsert(R) with a valid row R leaves exactly one stored row
\* for the natural key of R, equal to R, and the second call takes the update
\* branch (updated = 1, inserted = 0).
C2_IdempotentUpsert ==
  secondUpsertOfR =>
    /\ lastCall.updated = 1
    /\ lastCall.inserted = 0
    /\ Cardinality(lastCallRows) = 1
    /\ \A r \in lastCallRows : storedEquals(r)

C2_Witness_Invoice == secondUpsertOfR /\ lastCall.fn = "smartUpsert"
C2_Witness_Year == secondUpsertOfR /\ lastCall.fn = "yearUpsert"
C2_Witness_Entry == secondUpsertOfR /\ lastCall.fn = "batchUpsert"

\* -------------------------------------------------------------------- C5
\* the first page of the listing without a next-page cursor (0: none)
chainLength ==
  LET ends == {i \in 1..Len(server.pages) : server.pages[i].nextPage = "none"}
  IN IF ends = {} THEN 0 ELSE CHOOSE i \in ends : \A j \in ends : i <= j

\* the collections of pages 1..n, in page order
RECURSIVE concatPages(_)
concatPages(n) ==
  IF n = 0 THEN <<>>
  ELSE concatPages(n - 1) \o
       (IF server.pages[n].hasCollection THEN server.pages[n].collection ELSE <<>>)

\* every one of the N pages of the chain answers
chainAnswers ==
  chainLength > 0 /\ (server.failAt = 0 \/ server.failAt > chainLength)

\* C5: against a chain of N pages getPaginated issues exactly N requests,
\* terminates, and returns the pages' collections concatenated in page order.
C5_PaginationExact ==
  /\ [](chainAnswers =>
          /\ pager.requests <= chainLength
          /\ pager.status # "threw"
          /\ pager.status = "returned" =>
               /\ pager.requests = chainLength
               /\ pager.results = concatPages(chainLength))
  /\ ((chainAnswers /\ pager.status = "running") ~> pager.status = "returned")

C5_Witness ==
  /\ chainAnswers /\ chainLength = 3 /\ Len(server.pages) = 3
  /\ pager.status = "returned" /\ Len(pager.results) = 2

\* ------------------------------------------------------------ C8, C9, C10
\* the natural key of an invoice row
naturalKey(r) ==
  <<IF r.invoice_number # NULL THEN r.invoice_number ELSE r.draft_invoice_number,
    r.customer_number, r.agreement_number>>

\* C8: cleanupDuplicateInvoices run a second time with no write in between
\* deletes no row and reports count 0.
C8_CleanupIdempotent ==
  (lastCall.fn = "cleanup" /\ lastCall.repeat) =>
    /\ lastCall.count = 0
    /\ invoices = lastCall.before

C8_Witness ==
  lastCall.fn = "cleanup" /\ lastCall.repeat /\ lastCall.prevCount > 0

activeNumbers ==
  {agreements[i].agreement_number :
     i \in {j \in DOMAIN agreements : agreements[j].active}}

\* C9: of every group of k > 1 rows sharing one natural key the cleanup
\* deletes exactly k - 1 rows, and the row it keeps has the greatest
\* updated_at of the group.
C9_KeepsMostRecent ==
  (lastCall.fn = "cleanup" /\ lastCall.row = "agreements") =>
    \A g \in lastCall.before :
      LET group == {r \in lastCall.before : naturalKey(r) = naturalKey(g)}
      IN (Cardinality(group) > 1 /\ g.agreement_number \in activeNumbers) =>
           /\ Cardinality(group \cap invoices) = 1
           /\ \A kept \in group \cap invoices :
                \A r \in group : r.updated_at <= kept.updated_at

\* C10: the cleanup never deletes a row that is the only stored row of its
\* natural key.
C10_OnlyTrueDuplicates ==
  (lastCall.fn = "cleanup" /\ lastCall.row = "agreements") =>
    \A g \in lastCall.before :
      (\A r \in lastCall.before : naturalKey(r) = naturalKey(g) => r = g)
        => g \in invoices

\* -------------------------------------------------------------------- C3
\* the last two calls were the same per-agreement sync pass, one right after
\* the other on the same day
twiceInARow ==
  /\ pc.at = "idle"
  /\ passes.prev.mode = "single"
  /\ passes.last.mode = "single"
  /\ passes.last.id = passes.prev.id
  /\ passes.last.today = passes.prev.today

C3_Witness_Accounting ==
  /\ twiceInARow
  /\ family = "accounting"
  /\ ~passes.last.threw
  /\ Cardinality(accounting_periods) = 4
  /\ Cardinality(accounting_entries) = 12
  /\ accounting_totals # {}

C3_Witness_Accounts ==
  /\ twiceInARow
  /\ family = "accounts"
  /\ ~passes.last.threw
  /\ Cardinality(accounts) = 2

\* -------------------------------------------------------------------- C4
\* the sum of the counts of the agreements whose sync returned
RECURSIVE sumOfReturned(_)
sumOfReturned(outcomes) ==
  IF outcomes = <<>> THEN 0
  ELSE (IF Head(outcomes).threw THEN 0 ELSE Head(outcomes).count)
       + sumOfReturned(Tail(outcomes))

\* C4: in every cross-agreement syncAll (syncAllInvoices,
\* syncAllAccountingYears, syncAllAccounts) a throw from one agreement's sync
\* does not stop the iteration: syncAll returns normally with one result per
\* active agreement, a success result for every agreement whose sync returned
\* and an error result for every agreement whose sync threw, and totalCount
\* is the sum of the counts of the agreements whose sync returned.
C4_SyncAllIsolatesAgreements ==
  (passes.last.mode = "all" /\ passes.last.status # "warning") =>
    LET last == passes.last
    IN /\ ~last.threw
       /\ last.status = "success"
       /\ Len(last.results) = last.active
       /\ Len(last.outcomes) = last.active
       /\ \A i \in 1..Len(last.results) :
            /\ last.results[i].id = last.outcomes[i].id
            /\ (last.results[i].status = "error") <=> last.outcomes[i].threw
            /\ ~last.outcomes[i].threw =>
                 last.results[i].count = last.outcomes[i].count
       /\ last.totalCount = sumOfReturned(last.outcomes)

\* three agreements, #2 throws: #1 and #3 success, #2 error, the total is
\* the count of #1 plus the count of #3
C4_Witness ==
  /\ passes.last.mode = "all"
  /\ Len(passes.last.results) = 3
  /\ passes.last.results[1].status = ""
  /\ passes.last.results[2].status = "error"
  /\ passes.last.results[3].status = ""
  /\ passes.last.totalCount > 0
  /\ passes.last.totalCount
       = passes.last.results[1].count + passes.last.results[3].count

\* -------------------------------------------------------------------- C6
\* the period rows of a year of an agreement
periodsOf(year, agreementNumber) ==
  {p \in accounting_periods : p.year = year /\ p.agreement_number = agreementNumber}

\* the agreements whose accounting sync has returned in this call or the last
returned ==
  {pc.outcomes[i].agreementNumber :
     i \in {j \in DOMAIN pc.outcomes : ~pc.outcomes[j].threw}}
  \cup {passes.last.outcomes[i].agreementNumber :
          i \in {j \in DOMAIN passes.last.outcomes : ~passes.last.outcomes[j].threw}}

hasPeriod(year, periodNumber, agreementNumber) ==
  \E p \in accounting_periods : /\ p.year = year
                                /\ p.period_number = periodNumber
                                /\ p.agreement_number = agreementNumber

\* C6: in every state during and after syncAccountingYearsForAgreement every
\* stored period row has its year row and every stored entry row has its
\* period row; the year row is stored when its periods are fetched and the
\* period row when its entries are upserted; and once the sync of an
\* agreement has returned, a year whose remote listing has k periods has
\* exactly k period rows, with entries under those periods only.
C6_ParentBeforeChild ==
  family = "accounting" =>
    /\ \A p \in accounting_periods :
         findByYearAndAgreement(accounting_years, p.year, p.agreement_number) # {}
    /\ \A e \in accounting_entries :
         hasPeriod(e.year, e.period_number, e.agreement_number)
    /\ pc.at \in {"periods", "period", "entries", "totals", "yearTotals", "periodsEnd"} =>
         findByYearAndAgreement(accounting_years, pc.year,
                                numberOf(pc.agreement)) # {}
    /\ pc.at \in {"entries", "totals"} =>
         hasPeriod(pc.year, pc.period, numberOf(pc.agreement))
    /\ \A n \in returned : \A i \in DOMAIN remote.years :
         /\ Cardinality(periodsOf(remote.years[i].year, n)) = Len(remote.periods)
         /\ \A e \in accounting_entries :
              (e.year = remote.years[i].year /\ e.agreement_number = n) =>
                \E j \in DOMAIN remote.periods :
                  e.period_number = remote.periods[j].periodNumber

\* the sync of an agreement has returned: two years, two periods each, the
\* entries of every period stored
C6_Witness ==
  /\ family = "accounting"
  /\ pc.at = "idle"
  /\ 2 \in returned
  /\ Len(remote.years) = 2
  /\ Len(remote.periods) = 2
  /\ Cardinality(periodsOf(2025, 2)) = 2
  /\ \E e \in accounting_entries :
       e.agreement_number = 2 /\ e.year = 2025 /\ e.period_number = 2

\* -------------------------------------------------------------------- C7
\* this step is a child sync of the hierarchical accounting sync that fails:
\* the periods of a year, or the entries or the totals of a period, or the
\* totals of a year
childSyncFails ==
  /\ pc.at \in {"periods", "entries", "totals", "yearTotals"}
  /\ Len(sync_logs') > Len(sync_logs)
  /\ sync_logs'[Len(sync_logs) + 1].status = "error"

\* the frame the step leaves: the running one, or the one of the call that
\* returned with this step
outcomesAfter == IF pc'.at = "idle" THEN passes'.last.outcomes ELSE pc'.outcomes

addedLogs ==
  [i \in 1..(Len(sync_logs') - Len(sync_logs)) |->
     <<sync_logs'[Len(sync_logs) + i].entity[1],
       sync_logs'[Len(sync_logs) + i].status>>]

C11_NoAgreementsWarning ==
  (passes.last.mode = "all" /\ passes.last.active = 0) =>
    /\ passes.last.status = "warning"
    /\ passes.last.totalCount = 0
    /\ passes.last.results = <<>>
    /\ ~passes.last.threw
    /\ passes.last.requests = {}
    /\ passes.last.rows = passes.prev.rows

\* a syncAll over a registry with an inactive agreement only, whose tables
\* were filled by an earlier sync of that agreement
C11_Witness ==
  /\ passes.last.mode = "all" /\ passes.last.active = 0
  /\ Len(agreements) > 0
  /\ passes.prev.mode = "single" /\ ~passes.prev.threw
  /\ passes.prev.rows # emptyRows

\* ------------------------------------------------------------------- C12
\* C12: every request sent during the sync of an agreement carries that
\* agreement's own grant token; the client ApiClient.forAgreement(token)
\* builds is bound to exactly that token, a missing or empty one included,
\* and never to the process-wide default.
C12_RequestsCarryOwnToken ==
  \A q \in pc.requests \cup passes.last.requests : q[2] = q[1]

\* ------------------------------------------------------------------- C13
\* the stored lines of an invoice's natural key, without the surrogate id
storedLines(invoiceNumber, agreementNumber, customerNumber) ==
  {withoutId(r) : r \in {x \in invoice_lines :
                           /\ x.invoice_id = invoiceNumber
                           /\ x.agreement_number = agreementNumber
                           /\ x.customer_number = customerNumber}}

\* C13: after the lines of an invoice are saved again, the stored lines of
\* its natural key are exactly the freshly fetched ones: the stored lines
\* are deleted and the fresh ones inserted, also when the fresh set is empty
\* or shorter than the stored one.
C13_LinesFullyReplaced ==
  lastCall.fn = "saveInvoiceLines" =>
    storedLines(lastCall.invoiceNumber, lastCall.agreementNumber,
                lastCall.customerNumber)
      = {lastCall.lines[i] : i \in 1..Len(lastCall.lines)}

\* ------------------------------------------------------------------- C14
\* the number of chunks batchUpsert cuts a list into
chunks(entries) == (Len(entries) + batchSize - 1) \div batchSize

\* chunk k of the list, k = 1, 2, ...
chunkOf(entries, k) == slice(entries, (k - 1) * batchSize, k * batchSize)

\* the table after the first k chunks, each committed by its own transaction
RECURSIVE committedUpTo(_, _, _, _)
committedUpTo(table, periods, entries, k) ==
  IF k = 0
  THEN table
  ELSE LET t == committedUpTo(table, periods, entries, k - 1)
       IN entryChunk(t, t, periods, chunkOf(entries, k),
                     [inserted |-> 0, updated |-> 0]).table

\* the transaction of chunk k fails on one of its statements
chunkFails(table, periods, entries, k) ==
  LET t == committedUpTo(table, periods, entries, k - 1)
  IN ~entryChunk(t, t, periods, chunkOf(entries, k),
                 [inserted |-> 0, updated |-> 0]).ok

\* the chunk whose transaction fails first, if any
firstFailing(table, periods, entries) ==
  {k \in 1..chunks(entries) :
     /\ chunkFails(table, periods, entries, k)
     /\ \A j \in 1..(k - 1) : ~chunkFails(table, periods, entries, j)}

entryKey(e) == <<e.entry_number, e.year, e.agreement_number>>

\* C14: batchUpsert works in chunks of at most batchSize rows, one
\* transaction per chunk; when a statement of chunk k fails the call throws,
\* the rows of the chunks before k are stored as handed in, and nothing else
\* of the table has changed: no row of chunk k and no row of a later chunk
\* is stored.
C14_ChunkFailureRollsBackChunkOnly ==
  lastCall.fn = "batchUpsert" =>
    LET entries == lastCall.row
        failing == firstFailing(lastCall.before, lastCall.periods, entries)
    IN /\ lastCall.threw <=> failing # {}
       /\ \A k \in failing :
            LET done == SubSeq(entries, 1, (k - 1) * batchSize)
                doneKeys == {entryKey(done[i]) : i \in 1..Len(done)}
                rest == SubSeq(entries, (k - 1) * batchSize + 1, Len(entries))
            IN /\ \A i \in 1..Len(done) :
                    (\A j \in (i + 1)..Len(done) : entryKey(done[j]) # entryKey(done[i]))
                      => done[i] \in accounting_entries
               /\ {r \in accounting_entries : entryKey(r) \notin doneKeys}
                    = {r \in lastCall.before : entryKey(r) \notin doneKeys}
               /\ \A i \in 1..Len(rest) :
                    entryKey(rest[i]) \notin doneKeys /\ rest[i] \notin lastCall.before
                      => rest[i] \notin accounting_entries

\* a list of three entries on an empty table: the first chunk of two is
\* committed, the second chunk fails and the call throws
C14_Witness ==
  /\ lastCall.fn = "batchUpsert" /\ lastCall.threw
  /\ lastCall.before = {}
  /\ Len(lastCall.row) = 3
  /\ firstFailing(lastCall.before, lastCall.periods, lastCall.row) = {2}
  /\ accounting_entries = {lastCall.row[1], lastCall.row[2]}

\* ------------------------------------------------------------------- C15
\* the sync_logs rows a step has added
addedRows ==
  [i \in 1..(Len(sync_logs') - Len(sync_logs)) |-> sync_logs'[Len(sync_logs) + i]]

\* C15: when a step of the sync of one agreement fails, the service appends
\* an error row to sync_logs whose record_count is the number of records
\* the pass had processed, and rethrows: the sync of the agreement ends with
\* a throw and nothing more of that family is synced for the agreement, so
\* no success row follows the error row.
C15_FailureLoggedAndRethrown ==
  [][\A i \in 1..Len(addedRows) :
       addedRows[i].status = "error" =>
         /\ Len(outcomesAfter) = Len(pc.outcomes) + 1
         /\ outcomesAfter[Len(outcomesAfter)].threw
         /\ \A j \in (i + 1)..Len(addedRows) : addedRows[j].status = "error"
         /\ addedRows[i].entity[1] = "accounting_years" =>
              addedRows[i].record_count = pc.yearCount
         /\ addedRows[i].entity[1] = "accounting_periods" =>
              addedRows[i].record_count = pc.periodCount]_vars

\* ------------------------------------------------------------------- C16
\* the outcomes of the agreements synced by the running call and by the
\* call that ended last
settledOutcomes ==
  {pc.outcomes[i] : i \in 1..Len(pc.outcomes)}
  \cup {passes.last.outcomes[i] : i \in 1..Len(passes.last.outcomes)}

\* the records a sync of the agreement reports when every request of its
\* tenant is answered
reportedCount(agreement) ==
  CASE family = "accounts" -> Len(remote.accountList)
    [] family = "accounting" -> Len(remote.years)
    [] OTHER -> Len(listingOf("draft")) + Len(listingOf("booked"))
                + Len(listingOf("paid")) + Len(listingOf("unpaid"))
                + Len(listingOf("overdue")) + Len(listingOf("not-due"))

\* C16: a failing INSERT INTO sync_logs does not change the outcome of the
\* sync that records the log: recordSyncLog swallows the error, so a sync
\* that succeeded returns its result, a sync that failed rethrows the error
\* of the step that failed and not the one of the log, and a syncAll still
\* returns.
C16_LogFailureSwallowed ==
  remote.logsDown =>
    /\ sync_logs = <<>>
    /\ \A o \in settledOutcomes :
         /\ o.threw <=> o.failedAt # ""
         /\ o.error = o.failedAt
         /\ (~o.threw /\ remote.failing = {}) =>
              \E i \in 1..Len(agreements) :
                /\ agreements[i].id = o.id
                /\ o.count = reportedCount(agreements[i])
    /\ passes.last.mode = "all" => ~passes.last.threw
    /\ passes.last.mode = "single" =>
         /\ passes.last.threw <=> passes.last.outcomes[1].threw
         /\ ~passes.last.threw =>
              passes.last.totalCount = passes.last.outcomes[1].count

\* a syncAll while sync_logs refuses every row: the sync of agreement #2
\* threw the error of its failing request, the syncs of #1 and #3 returned
\* their counts and syncAll returned
C16_Witness ==
  /\ remote.logsDown
  /\ passes.last.mode = "all" /\ passes.last.status = "success"
  /\ Len(passes.last.outcomes) = 3
  /\ ~passes.last.outcomes[1].threw /\ passes.last.outcomes[1].count > 0
  /\ passes.last.outcomes[2].threw /\ passes.last.outcomes[2].failedAt = "self"
  /\ ~passes.last.outcomes[3].threw /\ passes.last.outcomes[3].count > 0

\* ------------------------------------------------------------------- C17
\* C17: when a natural-key field of the row handed to an upsert is absent
\* (the invoice number after the fallback to the draft number, the customer
\* number, the agreement number, the year or the agreement number of an
\* accounting year), the upsert throws before it issues any database
\* statement, and no row is stored under a key with a missing part.
C17_MissingKeyFailsFast ==
  /\ (/\ lastCall.fn = "smartUpsert"
      /\ smartUpsertThrows(lastCall.row, lastCall.row.agreement_number))
       => (lastCall.threw /\ lastCall.statements = 0)
  /\ (/\ lastCall.fn = "yearUpsert"
      /\ (lastCall.row.year = NULL \/ lastCall.row.agreement_number = NULL))
       => (lastCall.threw /\ lastCall.statements = 0)
  /\ \A r \in invoices : /\ r.invoice_number # NULL /\ r.customer_number # NULL
                         /\ r.agreement_number # NULL
  /\ \A r \in accounting_years : r.year # NULL /\ r.agreement_number # NULL

\* ------------------------------------------------------------------- C18
\* C18: during the sync pass of one agreement (one call of
\* syncAccountingYearsForAgreement, syncAgreementInvoices or
\* syncAccountsForAgreement, with every child sync it calls) GET /self is
\* requested at most once.
C18_SelfInfoOncePerPass ==
  /\ pc.selfCalls <= 1
  /\ \A o \in settledOutcomes : o.selfCalls <= 1

\* ------------------------------------------------------------------- C19
\* C19: every per-agreement sync (invoices, accounting years, accounts)
\* compares the agreement number GET /self reports with the stored
\* agreement and updates the stored row on mismatch, so after a sync pass
\* that succeeded the stored agreement_number is the reported one.
C19_AgreementSelfHealed ==
  \A o \in settledOutcomes :
    ~o.threw =>
      \A i \in 1..Len(agreements) :
        agreements[i].id = o.id => agreements[i].agreement_number = o.agreementNumber

\* ------------------------------------------------------------------- C20
\* C20: every orchestrated operation (a per-agreement sync, a syncAll, its
\* path with no active agreement included) has appended a row to sync_logs
\* when it returns or throws, as long as the database takes the row.
C20_EveryOperationLogs ==
  (passes.last.mode # "none" /\ logsUp) => passes.last.logs > passes.prev.logs

\* C21: in the sync-everything run a family whose sync fails does not keep
\* the families after it from being synced, and the run still answers with
\* its summary, in which the failed family is recorded as failed
C21_FamilyFailureIsolated ==
  lastCall.fn = "syncAll" =>
    /\ lastCall.attempted = Len(ControllerFamilies)
    /\ lastCall.response = "json"
    /\ \A i \in lastCall.failed :
         /\ i \in 1..Len(lastCall.results)
         /\ lastCall.results[i].status = "error"

\* C22: every stored total of a real period (period_number not 0) has its
\* accounting_periods row (period_number, year, agreement_number), whatever
\* full syncs and on-demand syncs of the totals of a period have run
C22_TotalHasItsPeriod ==
  \A t \in accounting_totals :
    t.period_number # 0 =>
      \E p \in accounting_periods :
        /\ p.period_number = t.period_number
        /\ p.year = t.year
        /\ p.agreement_number = t.agreement_number

\* the rows of accounting_totals of the year level and of the period level
yearLevelRows(table) == {t \in table : t.period_number = 0}
periodLevelRows(table) == {t \in table : t.period_number # 0}

\* the step is a sync of the totals of a year, inside a full sync or on demand
yearTotalsSynced ==
  \/ pc.at = "yearTotals"
  \/ /\ pc.at = "idle" /\ pc'.at = "idle" /\ passes'.calls = passes.calls + 1
     /\ lastCall'.fn = "syncAccountingYearTotals"

\* the step is a sync of the totals of a period, inside a full sync or on demand
periodTotalsSynced ==
  \/ pc.at = "totals"
  \/ /\ pc.at = "idle" /\ pc'.at = "idle" /\ passes'.calls = passes.calls + 1
     /\ lastCall'.fn = "syncAccountingPeriodTotals"

\* the sync of the totals of a year has gone through
yearTotalsStored ==
  \/ pc.at = "yearTotals" /\ pc'.at = "periodsEnd"
  \/ /\ pc.at = "idle" /\ pc'.at = "idle" /\ passes'.calls = passes.calls + 1
     /\ lastCall'.fn = "syncAccountingYearTotals" /\ ~lastCall'.threw

\* C23: no total is ever stored with a null period; a sync of the totals of
\* a year writes rows of period_number 0 only and leaves every period-level
\* row as it was, a sync of the totals of a period leaves every year-level
\* row as it was, and after a sync of the totals of a year that went
\* through each account of the remote has its year-level row with the total
\* of the year, next to its period-level rows
C23_YearAndPeriodTotalsApart ==
  [][/\ \A t \in accounting_totals' : t.period_number # NULL
     /\ yearTotalsSynced =>
          /\ periodLevelRows(accounting_totals') = periodLevelRows(accounting_totals)
          /\ (accounting_totals' \ accounting_totals) \subseteq
               yearLevelRows(accounting_totals')
     /\ periodTotalsSynced =>
          yearLevelRows(accounting_totals') = yearLevelRows(accounting_totals)
     /\ yearTotalsStored =>
          \A i \in 1..Len(remote.totals) :
            \E t \in yearLevelRows(accounting_totals') :
              /\ t.account_number = remote.totals[i].accountNumber
              /\ t.total_in_base_currency =
                   remoteTotals(NULL)[i].totalInBaseCurrency]_vars

\* an on-demand sync of the totals of the year has gone through on a store
\* that held the total of a period of the same account, and both rows are
\* stored
C23_Witness ==
  /\ lastCall.fn = "syncAccountingYearTotals" /\ ~lastCall.threw
  /\ \E p \in lastCall.before, y \in accounting_totals :
       /\ p.period_number # 0 /\ y.period_number = 0
       /\ p \in accounting_totals
       /\ p.account_number = y.account_number /\ p.year = y.year
       /\ p.agreement_number = y.agreement_number
       /\ p.total_in_base_currency # y.total_in_base_currency

\* C24: every payment_status the invoice sync has written to the invoices
\* table is one of pending, paid, overdue, partial, whatever listing the
\* invoice came from
C24_PaymentStatusInEnum ==
  family = "invoices" =>
    \A r \in invoices : r.payment_status \in Statuses

\* C25: two calls of transformInvoiceData with the same remote record, the
\* same listing type and the same agreement number return equal rows,
\* whatever the day of each call and whatever the service object holds
C25_TransformIsPure ==
  (lastCall.fn = "transformInvoiceData" /\ lastCall.calls >= 2) =>
    lastCall.row = lastCall.prevRow

agreementCreated == Len(agreements) > Len(lastCall.before)

\* the call of the registry that ran last has changed a grant token
agreementRetokened ==
  \E i \in 1..Len(lastCall.before) :
    agreements[i].agreement_grant_token # lastCall.before[i].agreement_grant_token

\* C27: a call of createAgreement, createAgreementWithVerification or
\* updateAgreement adds a record or changes a grant token only after
\* getAgreementInfo, asked under the very token of the call, succeeded with
\* an agreement number; a call whose validation failed throws and leaves
\* the registry as it was
C27_RegistryValidatesToken ==
  lastCall.fn \in {"createAgreement", "createAgreementWithVerification",
                   "updateAgreement"} =>
    /\ (agreementCreated \/ agreementRetokened) =>
         (lastCall.validated /\ lastCall.asked = lastCall.token)
    /\ (lastCall.checked /\ ~lastCall.validated) =>
         (lastCall.threw /\ agreements = lastCall.before)

\* C28: a cross-agreement invoice sync that returns, syncAllInvoices or one
\* of the type-specific syncs, returns one result per active agreement, in
\* the order of the registry, and the result of an agreement whose sync
\* threw is an error entry
C28_OneResultPerAgreement ==
  (passes.last.mode \in {"all", "type"} /\ ~passes.last.threw) =>
    LET results == passes.last.results
        outcomes == passes.last.outcomes
        active == getActiveAgreements(agreements)
    IN /\ Len(results) = passes.last.active
       /\ Len(outcomes) = Len(active)
       /\ \A i \in 1..Len(outcomes) : outcomes[i].id = active[i].id
       /\ \A i \in 1..Len(results) :
            /\ i <= Len(outcomes)
            /\ results[i].id = outcomes[i].id
            /\ outcomes[i].threw => results[i].status = "error"

\* the sync of the listing type fails for the token: the remote refuses the
\* listing, or an invoice of the listing has no customer number
typeFails(token, type) ==
  \/ fails(token, type, NULL, NULL)
  \/ \E k \in 1..Len(listingOf(type)) : listingOf(type)[k].customerNumber = NULL

\* the sum of the counts of the results of the types that succeeded
RECURSIVE countOfSucceeded(_)
countOfSucceeded(results) ==
  IF results = <<>> THEN 0
  ELSE (IF Head(results).status = "success" THEN Head(results).count ELSE 0)
       + countOfSucceeded(Tail(results))

\* C29: a sync of the invoices of an agreement throws only when GET /self
\* fails; otherwise it returns one result per listing type asked for, in
\* order: an error result, with an error sync log of that type, for a type
\* whose sync failed, and a success result with the number of the invoices
\* listed for every other type, before and after a failed one; the total it
\* returns is the sum of the counts of the types that succeeded
C29_TypeFailureIsolated ==
  family = "invoices" =>
    \A n \in 1..Len(passes.last.outcomes) :
      LET o == passes.last.outcomes[n]
          token == forAgreement(
                     SelectSeq(agreements, LAMBDA a : a.id = o.id)[1].agreement_grant_token)
          types == passes.last.types
      IN /\ o.threw <=> fails(token, "self", NULL, NULL)
         /\ ~o.threw =>
              /\ Len(o.results) = Len(types)
              /\ o.count = countOfSucceeded(o.results)
              /\ \A i \in 1..Len(o.results) :
                   /\ o.results[i].type = types[i]
                   /\ IF typeFails(token, types[i])
                      THEN /\ o.results[i].status = "error"
                           /\ \E k \in 1..Len(sync_logs) :
                                /\ sync_logs[k].entity = invoiceEntity(types[i])
                                /\ sync_logs[k].status = "error"
                                /\ sync_logs[k].record_count = 0
                      ELSE /\ o.results[i].status = "success"
                           /\ o.results[i].count = Len(listingOf(types[i]))

\* a sync of every listing type of an agreement has returned although the
\* sync of the booked listing failed, with a type synced after it that
\* stored an invoice
C29_Witness ==
  /\ family = "invoices"
  /\ \E n \in 1..Len(passes.last.outcomes) :
       LET o == passes.last.outcomes[n]
       IN /\ ~o.threw /\ Len(o.results) = 6
          /\ o.results[2].status = "error"
          /\ o.results[4].status = "success" /\ o.results[4].count > 0
          /\ o.count > 0

\* two runs in flight are upserting the same natural key of the same table
overlappingUpserts ==
  \E i, j \in 1..Len(pc.runs) :
    /\ i # j
    /\ pc.runs[i].table = pc.runs[j].table
    /\ pc.runs[i].key = pc.runs[j].key

\* C30: among the sync runs served concurrently (sync requests and the
\* background sync a totals read starts) no two upserts of one natural key
\* are in flight at once, and no upsert ends in a key violation or leaves
\* two rows for one natural key
C30_SingleWriterPerKey ==
  pc.mode = "overlap" =>
    /\ ~overlappingUpserts
    /\ \A n \in 1..Len(pc.ended) : pc.ended[n].error # "ER_DUP_ENTRY"
    /\ \A r, q \in accounting_years :
         (r.year = q.year /\ r.agreement_number = q.agreement_number) => r = q
    /\ \A r, q \in accounting_totals : totalKey(r) = totalKey(q) => r = q

\* a call that holds the connection of its transaction asks the pool for
\* another connection
holdsAndAsks ==
  \E k \in 1..PoolSize :
    pc.calls[k].holds /\ pc.calls[k].at = "find" /\ ~pc.calls[k].ended

\* every connection is held by a call that waits for the pool
poolDeadlock ==
  /\ freeConnections(pc.calls) = 0
  /\ \A k \in 1..PoolSize : pc.calls[k].holds /\ pc.calls[k].at = "find"

\* C31: a batchUpsert chunk that holds its transaction connection never
\* asks the pool for a second connection, and concurrent batchUpsert calls,
\* as many as the pool has connections, never all wait for the pool
C31_ChunkUsesOneConnection ==
  pc.mode = "pool" => ~holdsAndAsks /\ ~poolDeadlock

\* C39: in every transaction of Database.transaction the commit is tried
\* exactly when the callback has returned normally, the rollback exactly
\* when beginTransaction, the callback or the commit has thrown, and the
\* connection, once handed out, is released exactly once when the
\* transaction ends, whatever threw: when no transaction is running the
\* pool has all its connections
C39_TransactionReleasesOnce ==
  pc.mode = "pool" =>
    /\ \A k \in 1..PoolSize :
         LET tx == pc.calls[k]
         IN /\ tx.commitTried => tx.callback = "returned"
            /\ tx.committed => tx.commitTried /\ ~tx.commitThrew
            /\ tx.rollbackTried <=>
                 (tx.at \in {"release", "thrown"}
                  /\ (tx.beginThrew \/ tx.callback = "threw" \/ tx.commitThrew))
            /\ tx.holds => tx.acquired /\ tx.releases = 0
            /\ tx.ended =>
                 /\ ~tx.holds
                 /\ tx.releases = IF tx.acquired THEN 1 ELSE 0
                 /\ tx.acquired /\ tx.callback = "returned" => tx.commitTried
                 /\ tx.threw <=> ~tx.committed
    /\ (\A k \in 1..PoolSize : pc.calls[k].at \in {"idle", "returned", "thrown"})
         => freeConnections(pc.calls) = PoolSize

\* after a sequence of transactions one whose commit threw has ended: it
\* was rolled back, its connection was released once, and the pool has all
\* its connections
C39_Witness ==
  /\ pc.mode = "pool"
  /\ pc.started = MaxPoolCalls
  /\ \E k \in 1..PoolSize :
       /\ pc.calls[k].ended /\ pc.calls[k].commitThrew
       /\ pc.calls[k].rollbackTried /\ pc.calls[k].releases = 1
  /\ \E k \in 1..PoolSize : pc.calls[k].ended /\ pc.calls[k].committed
  /\ freeConnections(pc.calls) = PoolSize

\* -------------------------------------------------------------------- C32
\* C32: after a smartUpsert of R that returned without error the table
\* holds a row with the invoice_number, customer_number and
\* agreement_number of R (as smartUpsert keyed it) that carries the values
\* of R, also when the lookup matched the stored row through its
\* draft_invoice_number
C32_UpsertedRowStored ==
  (lastCall.fn = "smartUpsert" /\ ~lastCall.threw) =>
    \E r \in invoices :
      /\ r.invoice_number = lastCall.row.invoice_number
      /\ r.customer_number = lastCall.row.customer_number
      /\ r.agreement_number = lastCall.row.agreement_number
      /\ r.draft_invoice_number = lastCall.row.draft_invoice_number
      /\ r.net_amount = lastCall.row.net_amount
      /\ r.payment_status = orPending(lastCall.row.payment_status)

\* -------------------------------------------------------------------- C33
\* the last call was a batchUpsert of one chunk of two entries that share a
\* natural key which the table did not hold, in a period that is stored
sharedKeyChunk ==
  /\ lastCall.fn = "batchUpsert"
  /\ Len(lastCall.row) = 2
  /\ lastCall.row[1].entry_number = lastCall.row[2].entry_number
  /\ lastCall.row[1].year = lastCall.row[2].year
  /\ lastCall.row[1].agreement_number = lastCall.row[2].agreement_number
  /\ findByEntryNumberYearAndAgreement(lastCall.before, lastCall.row[1].entry_number,
       lastCall.row[1].year, lastCall.row[1].agreement_number) = {}
  /\ \A n \in 1..2 : \E p \in lastCall.periods :
       /\ p.period_number = lastCall.row[n].period_number
       /\ p.year = lastCall.row[n].year
       /\ p.agreement_number = lastCall.row[n].agreement_number

\* C33: a batchUpsert of a chunk in which two entries share a natural key
\* succeeds, the first entry inserted and the second updated, and leaves
\* one stored row for the key, with the values of the later entry
C33_SharedKeyInChunk ==
  sharedKeyChunk =>
    /\ ~lastCall.threw
    /\ lastCall.inserted = 1 /\ lastCall.updated = 1
    /\ findByEntryNumberYearAndAgreement(accounting_entries,
         lastCall.row[2].entry_number, lastCall.row[2].year,
         lastCall.row[2].agreement_number) = {lastCall.row[2]}

\* -------------------------------------------------------------------- C34
\* the invoice numbers stored for the agreement of the listing
storedNumbers == {r.invoice_number : r \in invoices}

\* the items of a list
itemsOf(list) == {list[n] : n \in 1..Len(list)}

\* C34: no invoice is stored before getPaginated has returned; when a page
\* request of the listing fails, the sync of the type gets no result at
\* all, stores no invoice and no invoice line and ends as an error; when
\* every page answers, the invoices of all the pages are stored
C34_NoPartialCollection ==
  /\ pager.status \in {"running", "returned", "threw"} =>
       invoices = {} /\ invoice_lines = {}
  /\ pager.status = "synced" =>
       IF chainAnswers
       THEN /\ ~lastCall.threw
            /\ lastCall.fetched = concatPages(chainLength)
            /\ storedNumbers = itemsOf(concatPages(chainLength))
       ELSE /\ lastCall.threw
            /\ lastCall.fetched = <<>>
            /\ invoices = {} /\ invoice_lines = {}
            /\ sync_logs[Len(sync_logs)].status = "error"

\* the second page request of a listing failed after the first page had
\* delivered an invoice, and the sync of the type has ended with nothing
\* stored
C34_Witness ==
  /\ pager.status = "synced"
  /\ server.failAt = 2 /\ pager.requests = 2
  /\ pager.results # <<>>
  /\ lastCall.fn = "syncType" /\ lastCall.threw
  /\ invoices = {}

\* -------------------------------------------------------------------- C35
\* C35: a cached read of the years or of the periods that starts after the
\* sync of the agreement has completed returns the rows the database holds
\* after that sync, whatever reads ran while the sync was running
C35_NoStaleReadAfterSync ==
  (/\ pc.mode = "cache"
   /\ lastCall.fn \in {"getAccountingYearsByAgreement", "getAccountingPeriodsByYear"}
   /\ lastCall.afterSync) =>
    lastCall.data = rowsOf(IF lastCall.fn = "getAccountingYearsByAgreement"
                           THEN "accounting_1_years"
                           ELSE "accounting_1_2024_periods")

\* ------------------------------------------------------------------- C36
\* the lines saved while the database may refuse one
InitLines == Init /\ family = "lines"

NextLines ==
  \E invoiceNumber \in {1, 2}, lineNumbers \in LineLists, failAt \in 0..2 :
    SaveInvoiceLinesRefused(invoiceNumber, 1, 1, lineNumbers, failAt)

SpecLines == InitLines /\ [][NextLines]_vars

\* C36: saveInvoiceLines is atomic: when the insert of a line fails the call
\* throws and the invoice_lines table is exactly what it was before the
\* call, the delete of the old lines included; when it returns normally with
\* a non-empty input the stored lines of the invoice are exactly the new
\* set and the lines of the other invoices are untouched.
C36_SaveLinesAtomic ==
  lastCall.fn = "saveInvoiceLines" =>
    LET own(r) == /\ r.invoice_id = lastCall.invoiceNumber
                  /\ r.agreement_number = lastCall.agreementNumber
                  /\ r.customer_number = lastCall.customerNumber
    IN /\ lastCall.threw <=> (lastCall.lines # <<>> /\ lastCall.failAt # 0)
       /\ lastCall.threw => invoice_lines = lastCall.before
       /\ (~lastCall.threw /\ lastCall.lines # <<>>) =>
            /\ storedLines(lastCall.invoiceNumber, lastCall.agreementNumber,
                           lastCall.customerNumber)
                 = {lastCall.lines[i] : i \in 1..Len(lastCall.lines)}
            /\ Cardinality({r \in invoice_lines : own(r)}) = Len(lastCall.lines)
            /\ {r \in invoice_lines : ~own(r)}
                 = {r \in lastCall.before : ~own(r)}

\* the second of two new lines was refused after the delete and the first
\* insert, and the invoice had stored lines before the call
C36_Witness ==
  /\ lastCall.fn = "saveInvoiceLines"
  /\ lastCall.threw
  /\ lastCall.failAt = 2
  /\ \E r \in lastCall.before : /\ r.invoice_id = lastCall.invoiceNumber
                                /\ r.line_number = 1
  /\ \E r \in lastCall.before : /\ r.invoice_id = lastCall.invoiceNumber
                                /\ r.line_number = 2

\* ------------------------------------------------------------------- C37
\* the remote refusing for tenant "t1" what it refuses for tenant "t2"
refusingBoth(r) ==
  [r EXCEPT !.failing = @ \cup {<<"t1", q[2], q[3], q[4]>> : q \in @}]

\* two active agreements and a remote that fails for both or for neither
InitSyncAll ==
  /\ family \in SyncFamilies
  /\ invoices = {}
  /\ accounting_years = {}
  /\ accounting_periods = {}
  /\ accounting_entries = {}
  /\ nextId = 1
  /\ clock = 0
  /\ today = 1
  /\ lastCall = NoCall
  /\ agreements = <<Agreement(1, 1, "t1", TRUE), Agreement(2, 2, "t2", TRUE)>>
  /\ sync_logs = <<>>
  /\ server = NoServer
  /\ pager = NoPager
  /\ invoice_lines = {}
  /\ accounts = {}
  /\ accounting_totals = {}
  /\ remote \in {refusingBoth(r) : r \in SyncRemotes(family)}
  /\ pc = NoSync
  /\ passes = NoPasses

SpecSyncAll == InitSyncAll /\ [][NextSync]_vars

\* C37: a syncAll over at least one active agreement returns, and returns
\* the status 'success', also when the sync of every agreement threw; a
\* throw shows only as the error entry of its agreement, and when every
\* agreement threw totalCount is 0.
C37_SyncAllStatusSuccess ==
  (passes.last.mode = "all" /\ passes.last.active > 0) =>
    LET results == passes.last.results
        outcomes == passes.last.outcomes
    IN /\ ~passes.last.threw
       /\ passes.last.status = "success"
       /\ Len(results) = Len(outcomes)
       /\ \A i \in 1..Len(results) :
            outcomes[i].threw <=> results[i].status = "error"
       /\ (\A i \in 1..Len(outcomes) : outcomes[i].threw) =>
            passes.last.totalCount = 0

\* a syncAll over two active agreements whose syncs both threw
C37_Witness ==
  /\ passes.last.mode = "all"
  /\ passes.last.active = 2
  /\ Len(passes.last.outcomes) = 2
  /\ \A i \in 1..2 : passes.last.outcomes[i].threw
  /\ passes.last.status = "success"
  /\ passes.last.totalCount = 0

\* ------------------------------------------------------------------- C38
\* the agreement whose sync is running
syncedAgreement ==
  IF pc.agreement # NoAgreement THEN pc.agreement ELSE Head(pc.queue)

\* the number GET /self answers to the client built for the agreement
selfNumberOf(agreement) ==
  getAgreementInfo(forAgreement(agreement.agreement_grant_token)).agreementNumber

\* every row the step writes, inserted or changed, carries the number n
writesCarry(n) ==
  /\ \A r \in invoices' \ invoices : r.agreement_number = n
  /\ \A r \in invoice_lines' \ invoice_lines : r.agreement_number = n
  /\ \A r \in accounts' \ accounts : r.agreement_number = n
  /\ \A r \in accounting_years' \ accounting_years : r.agreement_number = n
  /\ \A r \in accounting_periods' \ accounting_periods : r.agreement_number = n
  /\ \A r \in accounting_entries' \ accounting_entries : r.agreement_number = n
  /\ \A r \in accounting_totals' \ accounting_totals : r.agreement_number = n

\* no entity row is written by the step
writesNothing ==
  /\ invoices' = invoices
  /\ invoice_lines' = invoice_lines
  /\ accounts' = accounts
  /\ accounting_years' = accounting_years
  /\ accounting_periods' = accounting_periods
  /\ accounting_entries' = accounting_entries
  /\ accounting_totals' = accounting_totals

\* C38: every entity row written during the sync of an agreement carries
\* the agreementNumber GET /self answers to the client built for that
\* agreement, whatever number the Agreement record stores; outside the sync
\* of an agreement no entity row is written.
C38_RowsCarrySelfNumber ==
  [][IF pc.at = "idle" \/ (pc.agreement = NoAgreement /\ pc.queue = <<>>)
     THEN writesNothing
     ELSE writesCarry(selfNumberOf(syncedAgreement))]_vars

\* an agreement whose record stores another number than GET /self answers
\* was synced without a throw and its rows are stored under the answered
\* number
C38_Witness ==
  \E i \in 1..Len(passes.last.outcomes), k \in 1..Len(agreements) :
    LET o == passes.last.outcomes[i]
        n == selfNumberOf(agreements[k])
        own(table) == {r \in table : r.agreement_number = n}
    IN /\ agreements[k].id = o.id
       /\ ~o.threw
       /\ agreements[k].agreement_number # n
       /\ own(accounting_years) # {}
       /\ own(accounting_periods) # {}

=============================================================================
